---- MODULE Spec2Model ----
(***************************************************************************)
(* time-audit: the storage-and-tracking core.                              *)
(*   core/models.py            Entry / ProcessRule records, to_dict,       *)
(*                             from_dict                                   *)
(*   core/storage.py           StorageManager: whole-file CSV rewrite      *)
(*   core/tracker.py           TimeTracker: start / stop / switch          *)
(*   automation/rule_engine.py RuleEngine: match_process and the mutators  *)
(*                                                                         *)
(* Text that the code processes character by character (tag lists, regex   *)
(* patterns, process names) is a sequence of one-character strings; every  *)
(* other str is a TLA+ string.  A datetime is a clock reading (a natural   *)
(* number) and its ISO string is ToString of it; a UUID is a natural       *)
(* number and str(uuid) is ToString of it.                                 *)
(***************************************************************************)
EXTENDS Integers, Sequences, FiniteSets, TLC

\* ------------------------------------------------------------------ bounds
MaxClock == 2        \* datetime.now() ranges over 0..MaxClock
MaxEntries == 2      \* uuid4() is drawn at most MaxEntries times for entries
MaxRules == 2        \* uuid4() is drawn at most MaxRules times for rules
MaxMatchCount == 1   \* match_count is counted up to MaxMatchCount
MaxRate == 2         \* the largest Decimal of a Project
MaxCalls == 2        \* calls a process makes

\* ------------------------------------------------------- Python primitives
None == "<None>"     \* Python's None where a str is optional
NoneDt == -1         \* Python's None where a datetime is optional

\* x or "" for an Optional[str]
PyOrEmpty(x) == IF x = None \/ x = "" THEN "" ELSE x

\* data[k] if data[k] else None, for a str read from a CSV cell
PyNoneIfEmpty(s) == IF s = "" THEN None ELSE s

\* str(b) for a bool, as csv.DictWriter writes it
PyStrBool(b) == IF b THEN "True" ELSE "False"

\* bool(s) for a str: every non-empty string is truthy
PyBoolStr(s) == s # ""

\* bool(b) for a bool
PyBoolBool(b) == b

\* bool(v) of a value of a to_dict() dict (typed) or of a CSV cell
PyBool(v, typed) == IF typed THEN PyBoolBool(v) ELSE PyBoolStr(v)

\* datetime.isoformat() / datetime.fromisoformat()
IsoTable == [t \in 0..(MaxClock + 1) |-> ToString(t)]
isoformat(t) == IsoTable[t]
fromisoformat(s) == CHOOSE t \in DOMAIN IsoTable : IsoTable[t] = s

\* str(uuid) / UUID(s)
UUIDTable == [u \in 0..(MaxEntries + 1) |-> ToString(u)]
StrUUID(u) == UUIDTable[u]
UUID(s) == CHOOSE u \in DOMAIN UUIDTable : UUIDTable[u] = s

\* str(n) / int(s) for an int
IntTable == [n \in (0 - (MaxClock + 1))..(MaxClock + 1) |-> ToString(n)]
StrInt(n) == IntTable[n]
PyInt(s) == CHOOSE n \in DOMAIN IntTable : IntTable[n] = s

\* ----------------------------------------------- character-level text
\* ",".join(tags)
RECURSIVE JoinComma(_)
JoinComma(tags) ==
    IF tags = <<>> THEN <<>>
    ELSE IF Len(tags) = 1 THEN Head(tags)
    ELSE Head(tags) \o <<",">> \o JoinComma(Tail(tags))

\* s.split(","): always at least one piece
RECURSIVE SplitComma(_)
SplitComma(s) ==
    IF \A i \in 1..Len(s) : s[i] # "," THEN <<s>>
    ELSE LET k == CHOOSE i \in 1..Len(s) :
                     s[i] = "," /\ \A j \in 1..(i - 1) : s[j] # ","
         IN <<SubSeq(s, 1, k - 1)>> \o SplitComma(SubSeq(s, k + 1, Len(s)))

\* t.strip()
RECURSIVE Strip(_)
Strip(t) ==
    IF t = <<>> THEN t
    ELSE IF Head(t) = " " THEN Strip(Tail(t))
    ELSE IF t[Len(t)] = " " THEN Strip(SubSeq(t, 1, Len(t) - 1))
    ELSE t

\* [t.strip() for t in s.split(",") if t.strip()]
RECURSIVE StripNonEmpty(_)
StripNonEmpty(pieces) ==
    IF pieces = <<>> THEN <<>>
    ELSE IF Strip(Head(pieces)) = <<>> THEN StripNonEmpty(Tail(pieces))
    ELSE <<Strip(Head(pieces))>> \o StripNonEmpty(Tail(pieces))

ParseTags(s) == StripNonEmpty(SplitComma(s))

\* ------------------------------------------------------------------ Entry
NoEntry == [none |-> TRUE]   \* Optional[Entry] is None

\* Entry(...) with the dataclass defaults; now is datetime.now()
Entry(id, task_name, start_time, end_time, project, category, tags, notes, manual_entry, now) ==
    [id |-> id, task_name |-> task_name, start_time |-> start_time,
     end_time |-> end_time, project |-> project, category |-> category,
     tags |-> tags, notes |-> notes, active_process |-> None,
     active_window |-> None, idle_time_seconds |-> 0,
     manual_entry |-> manual_entry, edited |-> FALSE, auto_tracked |-> FALSE,
     rule_id |-> None, created_at |-> now, updated_at |-> now]

is_running(e) == e.end_time = NoneDt

duration_seconds(e) ==
    IF e.end_time = NoneDt THEN NoneDt ELSE e.end_time - e.start_time

\* Entry.to_dict: the bools and idle_time_seconds keep their Python type;
\* duration_seconds ("" or an int, never parsed back) is shown as its cell
Entry_to_dict(e) ==
    [id |-> StrUUID(e.id),
     start_time |-> isoformat(e.start_time),
     end_time |-> IF e.end_time # NoneDt THEN isoformat(e.end_time) ELSE "",
     duration_seconds |->
         IF e.end_time = NoneDt \/ duration_seconds(e) = 0
         THEN "" ELSE StrInt(duration_seconds(e)),
     task_name |-> e.task_name,
     project |-> PyOrEmpty(e.project),
     category |-> PyOrEmpty(e.category),
     tags |-> JoinComma(e.tags),
     notes |-> PyOrEmpty(e.notes),
     active_process |-> PyOrEmpty(e.active_process),
     active_window |-> PyOrEmpty(e.active_window),
     idle_time_seconds |-> e.idle_time_seconds,
     manual_entry |-> e.manual_entry,
     edited |-> e.edited,
     auto_tracked |-> e.auto_tracked,
     rule_id |-> PyOrEmpty(e.rule_id),
     created_at |-> isoformat(e.created_at),
     updated_at |-> isoformat(e.updated_at)]

\* csv.DictWriter writes str(cell); csv.DictReader returns every cell as str
Entry_csv_row(d) ==
    [d EXCEPT !.idle_time_seconds = StrInt(@),
              !.manual_entry = PyStrBool(@),
              !.edited = PyStrBool(@),
              !.auto_tracked = PyStrBool(@)]

\* the row of an entry as it stands in entries.csv
Entry_to_row(e) == Entry_csv_row(Entry_to_dict(e))

\* int(x) if x else 0, for a str cell and for an int
PyIdleStr(x) == IF x # "" THEN PyInt(x) ELSE 0
PyIdleInt(x) == IF x # 0 THEN x ELSE 0
PyIdle(x, typed) == IF typed THEN PyIdleInt(x) ELSE PyIdleStr(x)

\* Entry.from_dict; typed says that data is a to_dict() dict, with bool and
\* int values, and not a row of CSV cells
Entry_from_dict_of(data, typed) ==
    [id |-> UUID(data.id),
     start_time |-> fromisoformat(data.start_time),
     end_time |-> IF data.end_time # "" THEN fromisoformat(data.end_time)
                  ELSE NoneDt,
     task_name |-> data.task_name,
     project |-> PyNoneIfEmpty(data.project),
     category |-> PyNoneIfEmpty(data.category),
     tags |-> ParseTags(data.tags),
     notes |-> PyNoneIfEmpty(data.notes),
     active_process |-> PyNoneIfEmpty(data.active_process),
     active_window |-> PyNoneIfEmpty(data.active_window),
     idle_time_seconds |-> PyIdle(data.idle_time_seconds, typed),
     manual_entry |-> PyBool(data.manual_entry, typed),
     edited |-> PyBool(data.edited, typed),
     auto_tracked |-> PyBool(data.auto_tracked, typed),
     rule_id |-> PyNoneIfEmpty(data.rule_id),
     created_at |-> fromisoformat(data.created_at),
     updated_at |-> fromisoformat(data.updated_at)]

\* Entry.from_dict on a row read by csv.DictReader (every cell a str)
Entry_from_dict(data) == Entry_from_dict_of(data, FALSE)

\* Entry.from_dict on the dict Entry.to_dict returned
Entry_from_to_dict(data) == Entry_from_dict_of(data, TRUE)

\* --------------------------------------------------- StorageManager, entries
\* rows.sort(key=lambda r: r["start_time"], reverse=True): a stable sort,
\* rows of equal start_time keep their file order.  ISO strings of naive
\* datetimes compare as the datetimes do.
RECURSIVE InsertDesc(_, _)
InsertDesc(sorted, row) ==
    IF sorted = <<>> THEN <<row>>
    ELSE IF fromisoformat(Head(sorted).start_time)
            >= fromisoformat(row.start_time)
         THEN <<Head(sorted)>> \o InsertDesc(Tail(sorted), row)
         ELSE <<row>> \o sorted

RECURSIVE SortDesc(_, _)
SortDesc(sorted, rows) ==
    IF rows = <<>> THEN sorted
    ELSE SortDesc(InsertDesc(sorted, Head(rows)), Tail(rows))

\* load_entries(limit): limit = 0 stands for limit=None (both falsy)
load_entries(rows, limit) ==
    LET s == SortDesc(<<>>, rows)
        cut == IF limit # 0 /\ limit < Len(s) THEN SubSeq(s, 1, limit) ELSE s
    IN [i \in 1..Len(cut) |-> Entry_from_dict(cut[i])]

\* get_current_entry that takes the last running entry of load_entries()
get_current_entry_oldest(rows) ==
    LET es == load_entries(rows, 0)
    IN IF \E i \in 1..Len(es) : is_running(es[i])
       THEN es[CHOOSE i \in 1..Len(es) :
                   is_running(es[i])
                   /\ \A j \in (i + 1)..Len(es) : ~is_running(es[j])]
       ELSE NoEntry

\* get_current_entry: the first running entry of load_entries()
get_current_entry(rows) ==
    LET es == load_entries(rows, 0)
    IN IF \E i \in 1..Len(es) : is_running(es[i])
       THEN es[CHOOSE i \in 1..Len(es) :
                   is_running(es[i]) /\ \A j \in 1..(i - 1) : ~is_running(es[j])]
       ELSE NoEntry

\* delete_entry, from the rows it read to the rows it writes; it returns
\* whether a row went
delete_entry_rows(rows, entry_id) ==
    SelectSeq(rows, LAMBDA r : r.id # entry_id)

\* save_entry that appends without looking for the id
save_entry_rows_append(rows, entry, now) ==
    Append(rows, Entry_to_row([entry EXCEPT !.updated_at = now]))

\* save_entry, from the rows it read to the rows it writes; now is the
\* datetime.now() it stamps on updated_at
save_entry_rows(rows, entry, now) ==
    LET stamped == [entry EXCEPT !.updated_at = now]
        entry_dict == Entry_to_row(stamped)
    IN IF \E i \in 1..Len(rows) : rows[i].id = StrUUID(entry.id)
       THEN LET k == CHOOSE i \in 1..Len(rows) :
                         rows[i].id = StrUUID(entry.id)
                         /\ \A j \in 1..(i - 1) : rows[j].id # StrUUID(entry.id)
            IN [rows EXCEPT ![k] = entry_dict]
       ELSE Append(rows, entry_dict)

\* ------------------------------------------------------------ ProcessRule
NoRule == [none |-> TRUE]    \* Optional[ProcessRule] is None

\* confidence is a float; the model counts it in tenths (8 is 0.8).
\* str(float) and float(str) are inverse to each other.
ConfOne == 10        \* 1.0
ConfStep == 1        \* 0.1
ConfTable == [c \in (0 - ConfStep)..(ConfOne + 2 * ConfStep) |-> ToString(c)]
StrFloat(c) == ConfTable[c]
PyFloat(s) == CHOOSE c \in DOMAIN ConfTable : ConfTable[c] = s

CountTable == [n \in 0..(MaxMatchCount + 1) |-> ToString(n)]
StrCount(n) == CountTable[n]
PyIntCount(s) == CHOOSE n \in DOMAIN CountTable : CountTable[n] = s

\* ProcessRule(...) with the dataclass defaults
ProcessRule(id, pattern, task_name, project, category, tags, learned, confidence, t) ==
    [id |-> id, pattern |-> pattern, task_name |-> task_name,
     project |-> project, category |-> category, tags |-> tags,
     enabled |-> TRUE, learned |-> learned, confidence |-> confidence,
     match_count |-> 0, created_at |-> t]

\* str.lower() on the letters the model uses
Lower(ch) ==
    CASE ch = "C" -> "c"
      [] ch = "V" -> "v"
      [] ch = "X" -> "x"
      [] OTHER -> ch

LowerSeq(s) == [i \in 1..Len(s) |-> Lower(s[i])]

\* the alternatives of a pattern a|b|c
RECURSIVE SplitBar(_)
SplitBar(s) ==
    IF \A i \in 1..Len(s) : s[i] # "|" THEN <<s>>
    ELSE LET k == CHOOSE i \in 1..Len(s) :
                     s[i] = "|" /\ \A j \in 1..(i - 1) : s[j] # "|"
         IN <<SubSeq(s, 1, k - 1)>> \o SplitBar(SubSeq(s, k + 1, Len(s)))

\* lit occurs in text
Occurs(lit, text) ==
    \E k \in 0..(Len(text) - Len(lit)) :
        \A i \in 1..Len(lit) : text[k + i] = lit[i]

\* re.compile raises re.error: an unterminated character set
InvalidRegex(pattern) == \E i \in 1..Len(pattern) : pattern[i] = "["

\* ProcessRule.matches: re.search(pattern, process_name, re.IGNORECASE) for
\* patterns made of literals and "|"; an invalid pattern matches nothing
matches(rule, process_name) ==
    IF InvalidRegex(rule.pattern) THEN FALSE
    ELSE LET alts == SplitBar(LowerSeq(rule.pattern))
         IN \E a \in 1..Len(alts) : Occurs(alts[a], LowerSeq(process_name))

\* ProcessRule.to_dict: enabled, learned, confidence and match_count keep
\* their Python type
ProcessRule_to_dict(r) ==
    [id |-> r.id,
     pattern |-> r.pattern,
     task_name |-> r.task_name,
     project |-> PyOrEmpty(r.project),
     category |-> PyOrEmpty(r.category),
     tags |-> JoinComma(r.tags),
     enabled |-> r.enabled,
     learned |-> r.learned,
     confidence |-> r.confidence,
     match_count |-> r.match_count,
     created_at |-> isoformat(r.created_at)]

ProcessRule_csv_row(d) ==
    [d EXCEPT !.enabled = PyStrBool(@),
              !.learned = PyStrBool(@),
              !.confidence = StrFloat(@),
              !.match_count = StrCount(@)]

\* the row of a rule as it stands in rules.csv
ProcessRule_to_row(r) == ProcessRule_csv_row(ProcessRule_to_dict(r))

\* float(x) and int(x) of a float and of an int
PySame(x) == x
PyToFloat(x, typed) == IF typed THEN PySame(x) ELSE PyFloat(x)
PyToInt(x, typed) == IF typed THEN PySame(x) ELSE PyIntCount(x)

\* ProcessRule.from_dict; typed says that data is a to_dict() dict, with bool,
\* float and int values, and not a row of CSV cells
ProcessRule_from_dict_of(data, typed) ==
    [id |-> data.id,
     pattern |-> data.pattern,
     task_name |-> data.task_name,
     project |-> PyNoneIfEmpty(data.project),
     category |-> PyNoneIfEmpty(data.category),
     tags |-> ParseTags(data.tags),
     enabled |-> PyBool(data.enabled, typed),
     learned |-> PyBool(data.learned, typed),
     confidence |-> PyToFloat(data.confidence, typed),
     match_count |-> PyToInt(data.match_count, typed),
     created_at |-> fromisoformat(data.created_at)]

\* ProcessRule.from_dict on a row read by csv.DictReader
ProcessRule_from_dict(data) ==
    ProcessRule_from_dict_of(data, FALSE)

\* ProcessRule.from_dict on the dict ProcessRule.to_dict returned
ProcessRule_from_to_dict(data) ==
    ProcessRule_from_dict_of(data, TRUE)

\* ---------------------------------------------------- Project, Category
NoneDec == NoneDt    \* Python's None where a Decimal is optional

\* str(Decimal) / Decimal(str); a Decimal is counted in whole units
DecTable == [d \in 0..(MaxRate + 1) |-> ToString(d)]
StrDecimal(d) == DecTable[d]
Decimal(x) == CHOOSE d \in DOMAIN DecTable : DecTable[d] = x

\* str(self.hourly_rate) if self.hourly_rate else "": Decimal(0) is falsy
StrDecimalOrEmpty(d) == IF d # NoneDec /\ d # 0 THEN StrDecimal(d) ELSE ""
DecimalOrNone(x) == IF x # "" THEN Decimal(x) ELSE NoneDec

Project_to_dict(x) ==
    [id |-> x.id,
     name |-> x.name,
     description |-> PyOrEmpty(x.description),
     client |-> PyOrEmpty(x.client),
     hourly_rate |-> StrDecimalOrEmpty(x.hourly_rate),
     budget_hours |-> StrDecimalOrEmpty(x.budget_hours),
     active |-> x.active,
     created_at |-> isoformat(x.created_at)]

Project_csv_row(d) == [d EXCEPT !.active = PyStrBool(@)]

Project_from_dict_of(data, typed) ==
    [id |-> data.id,
     name |-> data.name,
     description |-> PyNoneIfEmpty(data.description),
     client |-> PyNoneIfEmpty(data.client),
     hourly_rate |-> DecimalOrNone(data.hourly_rate),
     budget_hours |-> DecimalOrNone(data.budget_hours),
     active |-> PyBool(data.active, typed),
     created_at |-> fromisoformat(data.created_at)]

Category_to_dict(x) ==
    [id |-> x.id,
     name |-> x.name,
     color |-> PyOrEmpty(x.color),
     parent_category |-> PyOrEmpty(x.parent_category),
     billable |-> x.billable]

Category_csv_row(d) == [d EXCEPT !.billable = PyStrBool(@)]

Category_from_dict_of(data, typed) ==
    [id |-> data.id,
     name |-> data.name,
     color |-> PyNoneIfEmpty(data.color),
     parent_category |-> PyNoneIfEmpty(data.parent_category),
     billable |-> PyBool(data.billable, typed)]

\* save_project / save_category, from the rows read to the rows written
save_row(rows, id, row_dict) ==
    IF \E i \in 1..Len(rows) : rows[i].id = id
    THEN LET k == CHOOSE i \in 1..Len(rows) :
                      rows[i].id = id /\ \A j \in 1..(i - 1) : rows[j].id # id
         IN [rows EXCEPT ![k] = row_dict]
    ELSE Append(rows, row_dict)

\* load_projects / load_categories
load_projects(rows) ==
    [i \in 1..Len(rows) |-> Project_from_dict_of(rows[i], FALSE)]
load_categories(rows) ==
    [i \in 1..Len(rows) |-> Category_from_dict_of(rows[i], FALSE)]

\* ---------------------------------------------------- StorageManager, rules
IsEnabled(r) == r.enabled

\* load_rules(enabled_only)
load_rules(rows, enabled_only) ==
    LET rules == [i \in 1..Len(rows) |-> ProcessRule_from_dict(rows[i])]
    IN IF enabled_only THEN SelectSeq(rules, IsEnabled) ELSE rules

\* get_rule(rule_id)
get_rule(rows, rule_id) ==
    LET rules == load_rules(rows, FALSE)
    IN IF \E i \in 1..Len(rules) : rules[i].id = rule_id
       THEN rules[CHOOSE i \in 1..Len(rules) :
                      rules[i].id = rule_id
                      /\ \A j \in 1..(i - 1) : rules[j].id # rule_id]
       ELSE NoRule

\* save_rule, from the rows it read to the rows it writes
save_rule_rows(rows, rule) ==
    LET rule_dict == ProcessRule_to_row(rule)
    IN IF \E i \in 1..Len(rows) : rows[i].id = rule.id
       THEN LET k == CHOOSE i \in 1..Len(rows) :
                         rows[i].id = rule.id
                         /\ \A j \in 1..(i - 1) : rows[j].id # rule.id
            IN [rows EXCEPT ![k] = rule_dict]
       ELSE Append(rows, rule_dict)

\* delete_rule, likewise; it returns whether a row went away
delete_rule_rows(rows, rule_id) ==
    LET IdDiffers(r) == r.id # rule_id
    IN SelectSeq(rows, IdDiffers)

\* ------------------------------------------------- StorageManager, backup
\* datetime.now().strftime("%Y%m%d_%H%M%S"): one label per second
strftime(t) == ToString(t)

\* the files backup() copies
BackupFiles == {"entries.csv", "projects.csv", "categories.csv"}

\* backup(label): files is the data directory (file name -> rows), dir the
\* backups directory; copy2 overwrites a file of the same name and leaves
\* the other files of an existing backup directory alone.  Every data file
\* exists, _initialize_files has created it.
backup(files, dir, label, t) ==
    LET name == IF label = None THEN strftime(t) ELSE label
        old == IF name \in DOMAIN dir THEN dir[name] ELSE <<>>
        copied == [f \in BackupFiles |-> files[f]]
    IN [path |-> name, dir |-> (name :> (copied @@ old)) @@ dir]

\* ------------------------------------------------------------- state
VARIABLES
    entries_file,   \* entries.csv: the sequence of rows below the header
    now,            \* the reading of datetime.now()
    nextId,         \* the next uuid4()
    ret,            \* what the last TimeTracker call returned or raised
    rules_file,     \* rules.csv: the sequence of rows below the header
    rules_cache,    \* RuleEngine._rules_cache
    nextRuleId,     \* the next uuid4() of a ProcessRule
    rret,           \* what the last RuleEngine call returned
    rt_in,          \* round trip: the entity handed to serialisation
    rt_out,         \* round trip: the entity parsed back
    fs,             \* the data directory as the processes share it
    proc,           \* the processes: where each is in its call, its locals
    projects_file,  \* projects.csv: the sequence of rows below the header
    categories_file, \* categories.csv: the sequence of rows below the header
    backup_dir      \* the backups directory: label -> file name -> rows

trackerVars == <<entries_file, nextId, ret>>
ruleVars == <<rules_file, rules_cache, nextRuleId, rret>>
rtVars == <<rt_in, rt_out>>
procVars == <<fs, proc>>
storeVars == <<projects_file, categories_file, backup_dir>>
nonTracker == <<ruleVars, rtVars, procVars, storeVars>>
nonRules == <<now, trackerVars, rtVars, procVars, storeVars>>
nonProc == <<entries_file, ret, ruleVars, rtVars, storeVars>>
vars == <<entries_file, now, nextId, ret,
          rules_file, rules_cache, nextRuleId, rret, rt_in, rt_out,
          fs, proc, projects_file, categories_file, backup_dir>>

\* arguments the callers pass
TaskNames == {"A", "B"}
ProjectArgs == {"p"}
NotesArgs == {None, "n"}
StartNotesArgs == {None}

NoRet == [op |-> "none", raised |-> "", stopped |-> NoEntry, entry |-> NoEntry]

Running(rows) == {i \in 1..Len(rows) : rows[i].end_time = ""}

\* ------------------------------------------------------- TimeTracker
\* start() without the check for a running entry
start_result_nocheck(rows, id, task_name, project, notes, t) ==
    LET entry == Entry(id, task_name, t, NoneDt, project, None, <<>>, notes,
                       FALSE, t)
    IN [raised |-> "", entry |-> [entry EXCEPT !.updated_at = t],
        rows |-> save_entry_rows(rows, entry, t)]

\* start() that saves the new entry before it checks for a running one
start_result_savefirst(rows, id, task_name, project, notes, t) ==
    LET current == get_current_entry(rows)
        entry == Entry(id, task_name, t, NoneDt, project, None, <<>>, notes,
                       FALSE, t)
    IN IF current # NoEntry
       THEN [raised |-> "AlreadyTracking", entry |-> NoEntry,
             rows |-> save_entry_rows(rows, entry, t)]
       ELSE [raised |-> "", entry |-> [entry EXCEPT !.updated_at = t],
             rows |-> save_entry_rows(rows, entry, t)]

\* start() that returns its entry and does not save it
start_result_nosave(rows, id, task_name, project, notes, t) ==
    LET current == get_current_entry(rows)
        entry == Entry(id, task_name, t, NoneDt, project, None, <<>>, notes,
                       FALSE, t)
    IN IF current # NoEntry
       THEN [raised |-> "AlreadyTracking", entry |-> NoEntry, rows |-> rows]
       ELSE [raised |-> "", entry |-> entry, rows |-> rows]

\* start(): what it raises, returns and writes from the rows in storage
start_result(rows, id, task_name, project, notes, t) ==
    LET current == get_current_entry(rows)
        entry == Entry(id, task_name, t, NoneDt, project, None, <<>>, notes,
                       FALSE, t)
    IN IF current # NoEntry
       THEN [raised |-> "AlreadyTracking", entry |-> NoEntry, rows |-> rows]
       ELSE [raised |-> "", entry |-> [entry EXCEPT !.updated_at = t],
             rows |-> save_entry_rows(rows, entry, t)]

\* stop() that takes the most recent entry, running or not
stop_result_latest(rows, notes, t) ==
    LET es == load_entries(rows, 0)
        current == IF es = <<>> THEN NoEntry ELSE es[1]
        stopped == [current EXCEPT
                       !.end_time = t,
                       !.notes = IF notes # None /\ notes # "" THEN notes ELSE @,
                       !.updated_at = t]
    IN IF current = NoEntry
       THEN [raised |-> "NotTracking", entry |-> NoEntry, rows |-> rows]
       ELSE [raised |-> "", entry |-> stopped,
             rows |-> save_entry_rows(rows, stopped, t)]

\* stop() that stores its notes argument even when there is none
stop_result_overwrite(rows, notes, t) ==
    LET current == get_current_entry(rows)
        stopped == [current EXCEPT !.end_time = t, !.notes = notes,
                                   !.updated_at = t]
    IN IF current = NoEntry
       THEN [raised |-> "NotTracking", entry |-> NoEntry, rows |-> rows]
       ELSE [raised |-> "", entry |-> stopped,
             rows |-> save_entry_rows(rows, stopped, t)]

\* stop(): likewise
stop_result(rows, notes, t) ==
    LET current == get_current_entry(rows)
        stopped == [current EXCEPT
                       !.end_time = t,
                       !.notes = IF notes # None /\ notes # "" THEN notes ELSE @,
                       !.updated_at = t]
    IN IF current = NoEntry
       THEN [raised |-> "NotTracking", entry |-> NoEntry, rows |-> rows]
       ELSE [raised |-> "", entry |-> stopped,
             rows |-> save_entry_rows(rows, stopped, t)]

Start(task_name, project, notes) ==
    LET r == start_result(entries_file, nextId, task_name, project, notes, now)
    IN /\ r.raised = "" => nextId <= MaxEntries
       /\ entries_file' = r.rows
       /\ nextId' = IF r.raised = "" THEN nextId + 1 ELSE nextId
       /\ ret' = [op |-> "start", raised |-> r.raised, stopped |-> NoEntry,
                  entry |-> r.entry]
       /\ UNCHANGED <<now, nonTracker>>

Stop(notes) ==
    LET r == stop_result(entries_file, notes, now)
    IN /\ entries_file' = r.rows
       /\ ret' = [op |-> "stop", raised |-> r.raised, stopped |-> NoEntry,
                  entry |-> r.entry]
       /\ UNCHANGED <<now, nextId, nonTracker>>

\* switch() that lets the ValueError of stop() escape
Switch_nocatch(task_name, project, notes) ==
    \E d \in {0, 1} :
        LET s == stop_result(entries_file, None, now)
            r == start_result(s.rows, nextId, task_name, project, notes, now + d)
        IN /\ now + d <= MaxClock
           /\ (s.raised = "" /\ r.raised = "") => nextId <= MaxEntries
           /\ entries_file' = IF s.raised # "" THEN entries_file ELSE r.rows
           /\ nextId' = IF s.raised = "" /\ r.raised = ""
                        THEN nextId + 1 ELSE nextId
           /\ now' = now + d
           /\ ret' = [op |-> "switch",
                      raised |-> IF s.raised # "" THEN s.raised ELSE r.raised,
                      stopped |-> s.entry,
                      entry |-> IF s.raised # "" THEN NoEntry ELSE r.entry]
           /\ UNCHANGED nonTracker

\* switch(): stop(), its ValueError swallowed, then start(); the clock may
\* advance between the two
Switch(task_name, project, notes) ==
    \E d \in {0, 1} :
        LET s == stop_result(entries_file, None, now)
            r == start_result(s.rows, nextId, task_name, project, notes, now + d)
        IN /\ now + d <= MaxClock
           /\ r.raised = "" => nextId <= MaxEntries
           /\ entries_file' = r.rows
           /\ nextId' = IF r.raised = "" THEN nextId + 1 ELSE nextId
           /\ now' = now + d
           /\ ret' = [op |-> "switch", raised |-> r.raised,
                      stopped |-> s.entry, entry |-> r.entry]
           /\ UNCHANGED nonTracker

\* status()
Status ==
    /\ ret' = [op |-> "status", raised |-> "", stopped |-> NoEntry,
               entry |-> get_current_entry(entries_file), after |-> ret.op]
    /\ UNCHANGED <<entries_file, now, nextId, nonTracker>>

\* cancel_current() that stops the running entry where it should delete it
cancel_result_stop(rows, t) ==
    LET s == stop_result(rows, None, t)
    IN [result |-> s.raised = "", rows |-> s.rows]

\* cancel_current(): what it returns and writes; t is not used, the entry
\* is deleted whatever the time
cancel_result(rows, t) ==
    LET current == get_current_entry(rows)
        kept == delete_entry_rows(rows, StrUUID(current.id))
    IN IF current = NoEntry
       THEN [result |-> FALSE, rows |-> rows]
       ELSE [result |-> Len(kept) # Len(rows), rows |-> kept]

CancelCurrent ==
    LET r == cancel_result(entries_file, now)
    IN /\ entries_file' = r.rows
       /\ ret' = [op |-> "cancel", raised |-> "", stopped |-> NoEntry,
                  entry |-> NoEntry, result |-> r.result]
       /\ UNCHANGED <<now, nextId, nonTracker>>

\* add_manual_entry() that lets end_time == start_time through
manual_result_strict(rows, id, task_name, start_time, end_time, project, notes, t) ==
    LET entry == Entry(id, task_name, start_time, end_time, project, None,
                       <<>>, notes, TRUE, t)
    IN IF end_time < start_time
       THEN [raised |-> "InvalidRange", entry |-> NoEntry, rows |-> rows]
       ELSE [raised |-> "", entry |-> [entry EXCEPT !.updated_at = t],
             rows |-> save_entry_rows(rows, entry, t)]

\* add_manual_entry() that forgets manual_entry=True
manual_result_unflagged(rows, id, task_name, start_time, end_time, project, notes, t) ==
    LET entry == Entry(id, task_name, start_time, end_time, project, None,
                       <<>>, notes, FALSE, t)
    IN IF end_time <= start_time
       THEN [raised |-> "InvalidRange", entry |-> NoEntry, rows |-> rows]
       ELSE [raised |-> "", entry |-> [entry EXCEPT !.updated_at = t],
             rows |-> save_entry_rows(rows, entry, t)]

\* add_manual_entry(): what it raises, returns and writes
manual_result(rows, id, task_name, start_time, end_time, project, notes, t) ==
    LET entry == Entry(id, task_name, start_time, end_time, project, None,
                       <<>>, notes, TRUE, t)
    IN IF end_time <= start_time
       THEN [raised |-> "InvalidRange", entry |-> NoEntry, rows |-> rows]
       ELSE [raised |-> "", entry |-> [entry EXCEPT !.updated_at = t],
             rows |-> save_entry_rows(rows, entry, t)]

AddManualEntry(task_name, start_time, end_time, project, notes) ==
    LET r == manual_result(entries_file, nextId, task_name, start_time,
                           end_time, project, notes, now)
    IN /\ r.raised = "" => nextId <= MaxEntries
       /\ entries_file' = r.rows
       /\ nextId' = IF r.raised = "" THEN nextId + 1 ELSE nextId
       /\ ret' = [op |-> "manual", raised |-> r.raised, stopped |-> NoEntry,
                  entry |-> r.entry, range |-> <<start_time, end_time>>]
       /\ UNCHANGED <<now, nonTracker>>

\* edit_entry() that assigns end_time whether or not it was supplied
edit_result_assign(rows, entry_id, task_name, project, notes, start_time, end_time, t) ==
    LET es == load_entries(rows, 0)
        found == \E i \in 1..Len(es) : StrUUID(es[i].id) = entry_id
        entry == es[CHOOSE i \in 1..Len(es) :
                        /\ StrUUID(es[i].id) = entry_id
                        /\ \A j \in 1..(i - 1) : StrUUID(es[j].id) # entry_id]
        edited == [entry EXCEPT
                      !.task_name = IF task_name # None THEN task_name ELSE @,
                      !.project = IF project # None THEN project ELSE @,
                      !.notes = IF notes # None THEN notes ELSE @,
                      !.start_time = IF start_time # NoneDt THEN start_time ELSE @,
                      !.end_time = end_time,
                      !.edited = TRUE,
                      !.updated_at = t]
    IN IF ~found
       THEN [raised |-> "NotFound", entry |-> NoEntry, rows |-> rows]
       ELSE [raised |-> "", entry |-> edited,
             rows |-> save_entry_rows(rows, edited, t)]

\* edit_entry(): what it raises, returns and writes; an argument that is
\* None (NoneDt for a datetime) was not supplied
edit_result(rows, entry_id, task_name, project, notes, start_time, end_time, t) ==
    LET es == load_entries(rows, 0)
        found == \E i \in 1..Len(es) : StrUUID(es[i].id) = entry_id
        entry == es[CHOOSE i \in 1..Len(es) :
                        /\ StrUUID(es[i].id) = entry_id
                        /\ \A j \in 1..(i - 1) : StrUUID(es[j].id) # entry_id]
        edited == [entry EXCEPT
                      !.task_name = IF task_name # None THEN task_name ELSE @,
                      !.project = IF project # None THEN project ELSE @,
                      !.notes = IF notes # None THEN notes ELSE @,
                      !.start_time = IF start_time # NoneDt THEN start_time ELSE @,
                      !.end_time = IF end_time # NoneDt THEN end_time ELSE @,
                      !.edited = TRUE,
                      !.updated_at = t]
    IN IF ~found
       THEN [raised |-> "NotFound", entry |-> NoEntry, rows |-> rows]
       ELSE [raised |-> "", entry |-> edited,
             rows |-> save_entry_rows(rows, edited, t)]

EditEntry(entry_id, task_name, project, notes, start_time, end_time) ==
    LET r == edit_result(entries_file, entry_id, task_name, project, notes,
                         start_time, end_time, now)
    IN /\ entries_file' = r.rows
       /\ ret' = [op |-> "edit", raised |-> r.raised, stopped |-> NoEntry,
                  entry |-> r.entry, id |-> entry_id]
       /\ UNCHANGED <<now, nextId, nonTracker>>

\* get_entries(): limit is <<>> for None and <<n>> for the int n; project
\* is None or a str, start_date NoneDt or a datetime
get_entries(rows, limit, project, start_date) ==
    LET entries == load_entries(rows, IF limit = <<>> THEN 0 ELSE limit[1])
        Keep(entry) ==
            /\ ~(project # None /\ project # "" /\ entry.project # project)
            /\ ~(start_date # NoneDt /\ entry.start_time < start_date)
    IN SelectSeq(entries, Keep)

GetEntries(limit, project, start_date) ==
    /\ ret' = [op |-> "get_entries", raised |-> "", stopped |-> NoEntry,
               entry |-> NoEntry, limit |-> limit, project |-> project,
               start_date |-> start_date,
               entries |-> get_entries(entries_file, limit, project, start_date)]
    /\ UNCHANGED <<entries_file, now, nextId, nonTracker>>

\* the data directory: the four collection files
DataDir ==
    ("entries.csv" :> entries_file) @@ ("projects.csv" :> projects_file)
    @@ ("categories.csv" :> categories_file) @@ ("rules.csv" :> rules_file)

Backup(label) ==
    LET b == backup(DataDir, backup_dir, label, now)
    IN /\ backup_dir' = b.dir
       /\ ret' = [op |-> "backup", raised |-> "", stopped |-> NoEntry,
                  entry |-> NoEntry, path |-> b.path]
       /\ UNCHANGED <<entries_file, now, nextId, projects_file,
                      categories_file, ruleVars, rtVars, procVars>>

SaveProject(project) ==
    /\ projects_file' = save_row(projects_file, project.id,
                                 Project_csv_row(Project_to_dict(project)))
    /\ UNCHANGED <<now, trackerVars, categories_file, backup_dir,
                   ruleVars, rtVars, procVars>>

SaveCategory(category) ==
    /\ categories_file' = save_row(categories_file, category.id,
                                   Category_csv_row(Category_to_dict(category)))
    /\ UNCHANGED <<now, trackerVars, projects_file, backup_dir,
                   ruleVars, rtVars, procVars>>

\* ---------------------------------------------------------- RuleEngine
\* learned.sort(key=lambda r: (r.confidence, r.match_count), reverse=True):
\* a stable sort
RuleKeyGeq(a, b) ==
    \/ a.confidence > b.confidence
    \/ a.confidence = b.confidence /\ a.match_count >= b.match_count

RECURSIVE InsertRuleDesc(_, _)
InsertRuleDesc(sorted, rule) ==
    IF sorted = <<>> THEN <<rule>>
    ELSE IF RuleKeyGeq(Head(sorted), rule)
         THEN <<Head(sorted)>> \o InsertRuleDesc(Tail(sorted), rule)
         ELSE <<rule>> \o sorted

RECURSIVE SortRulesDesc(_, _)
SortRulesDesc(sorted, rules) ==
    IF rules = <<>> THEN sorted
    ELSE SortRulesDesc(InsertRuleDesc(sorted, Head(rules)), Tail(rules))

\* _refresh_rules
refresh_rules(rows) == [loaded |-> TRUE, rules |-> load_rules(rows, TRUE)]

\* match_process that loads the rules from storage at every call
match_process_reload(rows, cache, process_name) ==
    IF process_name = <<>> THEN [rule |-> NoRule, cache |-> cache]
    ELSE LET c == refresh_rules(rows)
             Hit(r) == r.enabled /\ matches(r, process_name)
             IsLearned(r) == r.learned
             NotLearned(r) == ~r.learned
             hits == SelectSeq(c.rules, Hit)
             non_learned == SelectSeq(hits, NotLearned)
             learned == SelectSeq(hits, IsLearned)
         IN [rule |-> IF non_learned # <<>> THEN non_learned[1]
                      ELSE IF learned # <<>>
                           THEN SortRulesDesc(<<>>, learned)[1]
                      ELSE NoRule,
             cache |-> c]

\* match_process: the rule it returns and the cache it leaves
match_process(rows, cache, process_name) ==
    IF process_name = <<>> THEN [rule |-> NoRule, cache |-> cache]
    ELSE LET c == IF ~cache.loaded THEN refresh_rules(rows) ELSE cache
             Hit(r) == r.enabled /\ matches(r, process_name)
             IsLearned(r) == r.learned
             NotLearned(r) == ~r.learned
             hits == SelectSeq(c.rules, Hit)
             non_learned == SelectSeq(hits, NotLearned)
             learned == SelectSeq(hits, IsLearned)
         IN [rule |-> IF non_learned # <<>> THEN non_learned[1]
                      ELSE IF learned # <<>>
                           THEN SortRulesDesc(<<>>, learned)[1]
                      ELSE NoRule,
             cache |-> c]

\* min(1.0, existing.confidence + 0.1)
BumpConfidence(c) == IF c + ConfStep < ConfOne THEN c + ConfStep ELSE ConfOne

\* learn_rule: the first stored rule with learned set and the same pattern
learn_existing(rows, process_name) ==
    LET rules == load_rules(rows, FALSE)
        Same(i) == rules[i].learned /\ rules[i].pattern = process_name
    IN IF \E i \in 1..Len(rules) : Same(i)
       THEN rules[CHOOSE i \in 1..Len(rules) :
                      Same(i) /\ \A j \in 1..(i - 1) : ~Same(j)]
       ELSE NoRule

MatchProcess(process_name) ==
    LET m == match_process(rules_file, rules_cache, process_name)
    IN /\ rules_cache' = m.cache
       /\ rret' = [op |-> "match", name |-> process_name, rule |-> m.rule,
                   found |-> m.rule # NoRule]
       /\ UNCHANGED <<rules_file, nextRuleId, nonRules>>

LearnRule(process_name, task_name, confidence) ==
    LET existing == learn_existing(rules_file, process_name)
        updated == [existing EXCEPT
                       !.task_name = task_name, !.project = None,
                       !.category = None, !.tags = <<>>,
                       !.confidence = BumpConfidence(@),
                       !.match_count = @ + 1]
        new_rule == ProcessRule(ToString(nextRuleId), process_name, task_name,
                                None, None, <<>>, TRUE, confidence, now)
        rule == IF existing # NoRule THEN updated ELSE new_rule
    IN /\ existing # NoRule => existing.match_count < MaxMatchCount
       /\ existing = NoRule => nextRuleId <= MaxRules
       /\ rules_file' = save_rule_rows(rules_file, rule)
       /\ rules_cache' = refresh_rules(rules_file')
       /\ nextRuleId' = IF existing = NoRule THEN nextRuleId + 1
                        ELSE nextRuleId
       /\ rret' = [op |-> "learn", name |-> process_name, rule |-> rule,
                   found |-> existing # NoRule]
       /\ UNCHANGED nonRules

AddRule(pattern, task_name) ==
    LET rule == ProcessRule(ToString(nextRuleId), pattern, task_name,
                            None, None, <<>>, FALSE, ConfOne, now)
    IN /\ nextRuleId <= MaxRules
       /\ rules_file' = save_rule_rows(rules_file, rule)
       /\ rules_cache' = refresh_rules(rules_file')
       /\ nextRuleId' = nextRuleId + 1
       /\ rret' = [op |-> "add", name |-> pattern, rule |-> rule,
                   found |-> TRUE]
       /\ UNCHANGED nonRules

\* update_rule: an absent argument (None) is <<>>, a given one is <<v>>
UpdateRule(rule_id, pattern, task_name, enabled) ==
    LET rule == get_rule(rules_file, rule_id)
        updated == [rule EXCEPT
                       !.pattern = IF pattern # <<>> THEN pattern[1] ELSE @,
                       !.task_name = IF task_name # <<>> THEN task_name[1]
                                     ELSE @,
                       !.enabled = IF enabled # <<>> THEN enabled[1] ELSE @]
    IN IF rule = NoRule
       THEN /\ rret' = [op |-> "update", name |-> <<>>, rule |-> NoRule,
                        found |-> FALSE]
            /\ UNCHANGED <<rules_file, rules_cache, nextRuleId, nonRules>>
       ELSE /\ rules_file' = save_rule_rows(rules_file, updated)
            /\ rules_cache' = refresh_rules(rules_file')
            /\ rret' = [op |-> "update", name |-> <<>>, rule |-> updated,
                        found |-> TRUE]
            /\ UNCHANGED <<nextRuleId, nonRules>>

DeleteRule(rule_id) ==
    LET rows == delete_rule_rows(rules_file, rule_id)
        result == Len(rows) # Len(rules_file)
    IN /\ rules_file' = rows
       /\ rules_cache' = IF result THEN refresh_rules(rows) ELSE rules_cache
       /\ rret' = [op |-> "delete", name |-> <<>>, rule |-> NoRule,
                   found |-> result]
       /\ UNCHANGED <<nextRuleId, nonRules>>

\* increment_match_count(rule) on a rule object the caller holds
IncrementMatchCount(rule) ==
    LET bumped == [rule EXCEPT !.match_count = @ + 1]
    IN /\ rule.match_count < MaxMatchCount
       /\ rules_file' = save_rule_rows(rules_file, bumped)
       /\ rules_cache' = refresh_rules(rules_file')
       /\ rret' = [op |-> "increment", name |-> <<>>, rule |-> bumped,
                   found |-> TRUE]
       /\ UNCHANGED <<nextRuleId, nonRules>>

\* --------------------------------------------- several processes, one store
\* Each process runs its calls one file operation at a time. entries.csv and
\* entries.tmp are directory entries naming inodes; an inode has the bytes
\* of a file, which are nothing ("empty"), a header and whole rows
\* ("complete"), a header and rows cut short ("partial") or a file written
\* over the longer remains of another ("garbage").
Procs == {1, 2}
Inodes == 1..(Cardinality(Procs) + 2)

EmptyFile == [kind |-> "empty", rows |-> <<>>]
Garbage == [kind |-> "garbage", rows |-> <<>>]
Complete(rows) == [kind |-> "complete", rows |-> rows]
Partial(rows) == [kind |-> "partial", rows |-> rows]

NoRes == [op |-> "none", raised |-> "", entry |-> NoEntry, rows |-> <<>>,
          found |-> FALSE]

\* a process between calls
Idle(calls, res, seen) ==
    [pc |-> "idle", op |-> "none", phase |-> "", stage |-> "", fd |-> 0,
     id |-> 0, arg |-> "", entry |-> NoEntry, rows |-> <<>>, calls |-> calls,
     res |-> res, seen |-> seen]

WritePcs == {"w_open", "w_lock", "w_flush", "w_rename"}

\* the call of process p returns or raises
Return(p, res) == Idle(proc[p].calls, res, proc[p].seen)

Res(p, raised, entry, rows, found) ==
    [op |-> proc[p].op, raised |-> raised, entry |-> entry, rows |-> rows,
     found |-> found]

\* inodes that a directory entry or an open file still names
Live(f, pr) == {f.real, f.tmp} \cup {pr[q].fd : q \in Procs}

\* the file system with the inodes nothing names given back
Collect(f, pr) ==
    [f EXCEPT !.content = [i \in Inodes |->
                              IF i \in Live(f, pr) THEN f.content[i]
                              ELSE EmptyFile],
              !.lock = [i \in Inodes |->
                           IF i \in Live(f, pr) THEN f.lock[i] ELSE 0]]

\* a call begins: every call starts by reading entries.csv.  uuid4() is
\* drawn here, it does not depend on anything the call reads.
Call(p, op, arg) ==
    LET creates == op \in {"start", "switch", "save"}
    IN /\ proc[p].pc = "idle"
       /\ proc[p].calls < MaxCalls
       /\ creates => nextId <= MaxEntries
       /\ proc' = [proc EXCEPT ![p] =
                      [@ EXCEPT !.pc = "r_open", !.op = op, !.arg = arg,
                                !.id = IF creates THEN nextId ELSE 0,
                                !.phase = CASE op = "switch" -> "stop"
                                            [] op = "stop" -> "stop"
                                            [] op = "start" -> "start"
                                            [] OTHER -> "",
                                !.stage = CASE op = "save" -> "save"
                                            [] op = "delete" -> "delete"
                                            [] op = "load" -> "load"
                                            [] OTHER -> "current",
                                !.entry = IF op = "save"
                                          THEN Entry(nextId, arg, now, NoneDt,
                                                     None, None, <<>>, None,
                                                     FALSE, now)
                                          ELSE NoEntry,
                                !.calls = @ + 1]]
       /\ nextId' = IF creates THEN nextId + 1 ELSE nextId
       /\ UNCHANGED <<fs, now, nonProc>>

\* _read_csv: open(file_path)
ROpen(p) ==
    /\ proc[p].pc = "r_open"
    /\ proc' = [proc EXCEPT ![p] = [@ EXCEPT !.pc = "r_read", !.fd = fs.real]]
    /\ UNCHANGED <<fs, now, nextId, nonProc>>

\* AfterRead with the check of start() the wrong way round
AfterRead_inverted(p, rows, t) ==
    LET me == [proc[p] EXCEPT !.fd = 0]
        current == get_current_entry(rows)
        started == Entry(me.id, me.arg, t, NoneDt, None, None, <<>>, None,
                         FALSE, t)
        stopped == [current EXCEPT !.end_time = t, !.updated_at = t]
        kept == LET IdDiffers(r) == r.id # me.arg IN SelectSeq(rows, IdDiffers)
    IN CASE me.stage = "load" ->
                Return(p, Res(p, "", NoEntry, rows, TRUE))
         [] me.stage = "save" ->
                [me EXCEPT !.pc = "w_open",
                           !.rows = save_entry_rows(rows, me.entry, t)]
         [] me.stage = "delete" ->
                IF Len(kept) = Len(rows)
                THEN Return(p, Res(p, "", NoEntry, <<>>, FALSE))
                ELSE [me EXCEPT !.pc = "w_open", !.rows = kept]
         [] me.stage = "current" /\ me.op = "status" ->
                Return(p, Res(p, "", current, <<>>, current # NoEntry))
         [] me.stage = "current" /\ me.phase = "start" ->
                IF current = NoEntry
                THEN Return(p, Res(p, "AlreadyTracking", NoEntry, <<>>, FALSE))
                ELSE [me EXCEPT !.pc = "r_open", !.stage = "save",
                                !.entry = started]
         [] me.stage = "current" /\ me.phase = "stop" ->
                IF current = NoEntry
                THEN IF me.op = "switch"
                     THEN [me EXCEPT !.pc = "r_open", !.phase = "start"]
                     ELSE Return(p, Res(p, "NotTracking", NoEntry, <<>>, FALSE))
                ELSE [me EXCEPT !.pc = "r_open", !.stage = "save",
                                !.entry = stopped]

\* what the caller of _read_csv does with the rows, up to its next file
\* operation; t is datetime.now()
AfterRead(p, rows, t) ==
    LET me == [proc[p] EXCEPT !.fd = 0]
        current == get_current_entry(rows)
        started == Entry(me.id, me.arg, t, NoneDt, None, None, <<>>, None,
                         FALSE, t)
        stopped == [current EXCEPT !.end_time = t, !.updated_at = t]
        kept == LET IdDiffers(r) == r.id # me.arg IN SelectSeq(rows, IdDiffers)
    IN CASE me.stage = "load" ->
                Return(p, Res(p, "", NoEntry, rows, TRUE))
         [] me.stage = "save" ->
                [me EXCEPT !.pc = "w_open",
                           !.rows = save_entry_rows(rows, me.entry, t)]
         [] me.stage = "delete" ->
                IF Len(kept) = Len(rows)
                THEN Return(p, Res(p, "", NoEntry, <<>>, FALSE))
                ELSE [me EXCEPT !.pc = "w_open", !.rows = kept]
         [] me.stage = "current" /\ me.op = "status" ->
                Return(p, Res(p, "", current, <<>>, current # NoEntry))
         [] me.stage = "current" /\ me.phase = "start" ->
                IF current # NoEntry
                THEN Return(p, Res(p, "AlreadyTracking", NoEntry, <<>>, FALSE))
                ELSE [me EXCEPT !.pc = "r_open", !.stage = "save",
                                !.entry = started]
         [] me.stage = "current" /\ me.phase = "stop" ->
                IF current = NoEntry
                THEN IF me.op = "switch"
                     THEN [me EXCEPT !.pc = "r_open", !.phase = "start"]
                     ELSE Return(p, Res(p, "NotTracking", NoEntry, <<>>, FALSE))
                ELSE [me EXCEPT !.pc = "r_open", !.stage = "save",
                                !.entry = stopped]

\* _read_csv: flock(LOCK_SH), list(csv.DictReader(f)), unlock, close; then
\* the caller goes on
RRead(p) ==
    LET c == fs.content[proc[p].fd]
        next == IF c.kind = "garbage"
                THEN [Return(p, Res(p, "Malformed", NoEntry, <<>>, FALSE))
                         EXCEPT !.seen = c.kind]
                ELSE [AfterRead(p, c.rows, now) EXCEPT !.seen = c.kind]
    IN /\ proc[p].pc = "r_read"
       /\ fs.lock[proc[p].fd] = 0
       /\ proc' = [proc EXCEPT ![p] = next]
       /\ fs' = Collect(fs, proc')
       /\ UNCHANGED <<now, nextId, nonProc>>

\* _write_csv_atomic that opens entries.csv itself for writing
WOpen_inplace(p) ==
    /\ proc[p].pc = "w_open"
    /\ fs' = [fs EXCEPT !.content[fs.real] = EmptyFile]
    /\ proc' = [proc EXCEPT ![p] = [@ EXCEPT !.pc = "w_lock", !.fd = fs.real]]
    /\ UNCHANGED <<now, nextId, nonProc>>

\* _write_csv_atomic: open(temp_file, "w") creates entries.tmp or empties
\* the inode it names
WOpen(p) ==
    LET i == IF fs.tmp # 0 THEN fs.tmp
             ELSE CHOOSE j \in Inodes \ Live(fs, proc) :
                      \A k \in Inodes \ Live(fs, proc) : j <= k
    IN /\ proc[p].pc = "w_open"
       /\ fs' = [fs EXCEPT !.tmp = i, !.content[i] = EmptyFile]
       /\ proc' = [proc EXCEPT ![p] = [@ EXCEPT !.pc = "w_lock", !.fd = i]]
       /\ UNCHANGED <<now, nextId, nonProc>>

\* _write_csv_atomic: flock(LOCK_EX) on the temp file
WLock(p) ==
    /\ proc[p].pc = "w_lock"
    /\ fs.lock[proc[p].fd] = 0
    /\ fs' = [fs EXCEPT !.lock[proc[p].fd] = p]
    /\ proc' = [proc EXCEPT ![p] = [@ EXCEPT !.pc = "w_flush"]]
    /\ UNCHANGED <<now, nextId, nonProc>>

\* the bytes of an inode after rows were written from offset 0: over an
\* emptied file exactly the new file, over bytes another writer left there
\* the new file, followed by what is left of the old one if that was longer
Overwritten(old, rows) ==
    IF old.kind = "empty" THEN {Complete(rows)} ELSE {Complete(rows), Garbage}

\* _write_csv_atomic: writeheader, writerows, flush, fsync, unlock, close
WFlush(p) ==
    /\ proc[p].pc = "w_flush"
    /\ \E c \in Overwritten(fs.content[proc[p].fd], proc[p].rows) :
           /\ proc' = [proc EXCEPT ![p] = [@ EXCEPT !.pc = "w_rename", !.fd = 0]]
           /\ fs' = Collect([fs EXCEPT !.content[proc[p].fd] = c,
                                       !.lock[proc[p].fd] = 0], proc')
    /\ UNCHANGED <<now, nextId, nonProc>>

\* what the caller of _write_csv_atomic does after it returned
AfterWrite(p) ==
    IF proc[p].op = "switch" /\ proc[p].phase = "stop"
    THEN [proc[p] EXCEPT !.pc = "r_open", !.phase = "start",
                         !.stage = "current", !.rows = <<>>,
                         !.entry = NoEntry]
    ELSE Return(p, Res(p, "", proc[p].entry, <<>>, TRUE))

\* _write_csv_atomic: temp_file.replace(file_path); FileNotFoundError when
\* entries.tmp is gone, and then there is nothing to unlink
WRename(p) ==
    /\ proc[p].pc = "w_rename"
    /\ IF fs.tmp = 0
       THEN /\ proc' = [proc EXCEPT ![p] =
                           Return(p, Res(p, "OSError", NoEntry, <<>>, FALSE))]
            /\ fs' = fs
       ELSE /\ proc' = [proc EXCEPT ![p] = AfterWrite(p)]
            /\ fs' = Collect([fs EXCEPT !.real = fs.tmp, !.tmp = 0], proc')
    /\ UNCHANGED <<now, nextId, nonProc>>

\* _write_csv_atomic: an OSError inside the try block; the file is closed,
\* entries.tmp is unlinked if it exists, the error is raised again
WFail(p) ==
    /\ proc[p].pc \in WritePcs
    /\ proc' = [proc EXCEPT ![p] =
                   Return(p, Res(p, "OSError", NoEntry, <<>>, FALSE))]
    /\ fs' = Collect([fs EXCEPT !.tmp = 0,
                                !.lock = [i \in Inodes |->
                                             IF fs.lock[i] = p THEN 0
                                             ELSE fs.lock[i]]], proc')
    /\ UNCHANGED <<now, nextId, nonProc>>

\* the process is killed inside _write_csv_atomic: its file is closed,
\* nothing is cleaned up; killed while the bytes go out, a part of them is
\* in the temp file
Kill(p) ==
    /\ proc[p].pc \in WritePcs
    /\ proc' = [proc EXCEPT ![p] = [Return(p, Res(p, "killed", NoEntry, <<>>,
                                                   FALSE))
                                       EXCEPT !.pc = "dead"]]
    /\ \E cut \in IF proc[p].pc = "w_flush"
                   THEN {Len(proc[p].rows), Len(proc[p].rows) - 1} \ {-1}
                   ELSE {Len(proc[p].rows)} :
           fs' = Collect([fs EXCEPT
                            !.content = [i \in Inodes |->
                                IF i = proc[p].fd /\ proc[p].pc = "w_flush"
                                   /\ fs.lock[i] = p
                                THEN Partial(SubSeq(proc[p].rows, 1, cut))
                                ELSE fs.content[i]],
                            !.lock = [i \in Inodes |->
                                         IF fs.lock[i] = p THEN 0
                                         ELSE fs.lock[i]]], proc')
    /\ UNCHANGED <<now, nextId, nonProc>>

\* StorageManager.__init__ has written the header into entries.csv
InitProc ==
    /\ fs = [real |-> 1, tmp |-> 0,
             content |-> [i \in Inodes |->
                             IF i = 1 THEN Complete(<<>>) ELSE EmptyFile],
             lock |-> [i \in Inodes |-> 0]]
    /\ proc = [p \in Procs |-> Idle(0, NoRes, "none")]

Tick ==
    /\ now < MaxClock
    /\ now' = now + 1
    /\ UNCHANGED <<trackerVars, nonTracker>>

\* RuleEngine.__init__ over freshly initialised files
NoCache == [loaded |-> FALSE, rules |-> <<>>]
NoRRet == [op |-> "none", name |-> <<>>, rule |-> NoRule, found |-> FALSE]

InitTracker ==
    /\ entries_file = <<>>
    /\ now = 0
    /\ nextId = 1
    /\ ret = NoRet

InitRules ==
    /\ rules_file = <<>>
    /\ rules_cache = NoCache
    /\ nextRuleId = 1
    /\ rret = NoRRet

NoRT == [kind |-> "none"]

InitRT ==
    /\ rt_in = NoRT
    /\ rt_out = NoRT

\* StorageManager.__init__: empty projects.csv and categories.csv, an
\* empty backups directory
InitStore ==
    /\ projects_file = <<>>
    /\ categories_file = <<>>
    /\ backup_dir = <<>>

Init == InitTracker /\ InitRules /\ InitRT /\ InitProc /\ InitStore

StartCall ==
    \E t \in TaskNames, p \in ProjectArgs, n \in StartNotesArgs : Start(t, p, n)

StopCall == \E n \in NotesArgs : Stop(n)

SwitchCall ==
    \E t \in TaskNames, p \in ProjectArgs, n \in StartNotesArgs : Switch(t, p, n)

Next ==
    \/ StartCall
    \/ StopCall
    \/ SwitchCall
    \/ Tick

Spec == Init /\ [][Next]_vars

\* ------------------------------------------------- RuleEngine, one engine
\* arguments the callers pass
ProcNames == {<<>>, <<"c">>, <<"V", "c">>}
Patterns == {<<"c">>, <<"v", "|", "x">>}
UpdatePatterns == {<<"[">>}
RuleTasks == {"T"}
ConfArgs == {8, 10}
RuleIds == {ToString(n) : n \in 1..MaxRules}

StoredRules == {load_rules(rules_file, FALSE)[i] : i \in 1..Len(rules_file)}

MatchCall == \E n \in ProcNames : MatchProcess(n)

LearnCall ==
    \E n \in ProcNames \ {<<>>}, t \in RuleTasks, c \in ConfArgs :
        LearnRule(n, t, c)

AddCall == \E p \in Patterns, t \in RuleTasks : AddRule(p, t)

UpdateCall ==
    \E id \in RuleIds, p \in {<<>>} \cup {<<q>> : q \in UpdatePatterns},
       t \in {<<>>}, e \in {<<>>, <<TRUE>>, <<FALSE>>} :
        UpdateRule(id, p, t, e)

DeleteCall == \E id \in RuleIds : DeleteRule(id)

IncrementCall == \E r \in StoredRules : IncrementMatchCount(r)

NextRules ==
    \/ MatchCall
    \/ LearnCall
    \/ AddCall
    \/ UpdateCall
    \/ DeleteCall
    \/ IncrementCall

SpecRules == Init /\ [][NextRules]_vars

\* every call of the tracker but switch(), by one process
TrackTasks == {"A"}
TrackNotes == {None, "m"}
ManualTasks == {"M"}
ManualStarts == {1}
ManualEnds == {0, 1, 2}

TrackStartCall ==
    \E t \in TrackTasks, p \in ProjectArgs, n \in TrackNotes : Start(t, p, n)

StatusCall == Status

CancelCall == CancelCurrent

ManualCall ==
    \E t \in ManualTasks, s \in ManualStarts, e \in ManualEnds,
       p \in ProjectArgs, n \in StartNotesArgs :
        AddManualEntry(t, s, e, p, n)

NextTracker ==
    \/ TrackStartCall
    \/ StopCall
    \/ StatusCall
    \/ CancelCall
    \/ ManualCall
    \/ Tick

SpecTracker == Init /\ [][NextTracker]_vars

\* StorageManager.save_entry and delete_entry called with entries of the
\* caller's making
StoreStarts == {0, 1}
StoreEntries ==
    {Entry(id, t, s, NoneDt, None, None, <<>>, None, FALSE, s) :
        id \in 1..MaxEntries, t \in TaskNames, s \in StoreStarts}

SaveEntry(entry) ==
    /\ entries_file' = save_entry_rows(entries_file, entry, now)
    /\ ret' = [op |-> "save", raised |-> "", stopped |-> NoEntry,
               entry |-> [entry EXCEPT !.updated_at = now],
               found |-> \E i \in 1..Len(entries_file) :
                            entries_file[i].id = StrUUID(entry.id)]
    /\ UNCHANGED <<now, nextId, nonTracker>>

DeleteEntry(id) ==
    LET kept == delete_entry_rows(entries_file, StrUUID(id))
    IN /\ entries_file' = kept
       /\ ret' = [op |-> "delete", raised |-> "", stopped |-> NoEntry,
                  entry |-> NoEntry, found |-> Len(kept) # Len(entries_file)]
       /\ UNCHANGED <<now, nextId, nonTracker>>

SaveEntryCall == \E e \in StoreEntries : SaveEntry(e)

DeleteEntryCall == \E id \in 1..MaxEntries : DeleteEntry(id)

NextStore ==
    \/ SaveEntryCall
    \/ DeleteEntryCall
    \/ Tick

SpecStore == Init /\ [][NextStore]_vars

\* every call of the tracker that writes, by one process
EditTasks == {None, "E"}
EditStarts == {NoneDt}
EditEnds == {NoneDt, 0}
EditManualEnds == {2}
EntryIds == {StrUUID(id) : id \in 1..MaxEntries}

EditStartCall ==
    \E t \in TrackTasks, p \in ProjectArgs, n \in StartNotesArgs : Start(t, p, n)

EditStopCall == \E n \in StartNotesArgs : Stop(n)

EditSwitchCall ==
    \E t \in TrackTasks, p \in ProjectArgs, n \in StartNotesArgs : Switch(t, p, n)

EditManualCall ==
    \E t \in ManualTasks, s \in ManualStarts, e \in EditManualEnds,
       p \in ProjectArgs, n \in StartNotesArgs :
        AddManualEntry(t, s, e, p, n)

EditCall ==
    \E id \in EntryIds, t \in EditTasks, s \in EditStarts, e \in EditEnds :
        EditEntry(id, t, None, None, s, e)

NextEdit ==
    \/ EditStartCall
    \/ EditStopCall
    \/ EditSwitchCall
    \/ CancelCall
    \/ EditManualCall
    \/ EditCall
    \/ DeleteEntryCall

SpecEdit == Init /\ [][NextEdit]_vars

\* get_entries() over what start() and stop() stored
QueryProjects == {None, "p"}
QueryLimits == {<<>>} \cup {<<n>> : n \in 0..MaxEntries}
QueryDates == {NoneDt, 1}

QueryStartCall ==
    \E t \in TrackTasks, p \in QueryProjects, n \in StartNotesArgs :
        Start(t, p, n)

GetEntriesCall ==
    \E l \in QueryLimits, p \in QueryProjects, d \in QueryDates :
        GetEntries(l, p, d)

NextQuery ==
    \/ QueryStartCall
    \/ EditStopCall
    \/ GetEntriesCall
    \/ Tick

SpecQuery == Init /\ [][NextQuery]_vars

\* backup() between calls that write each of the four files
BackupLabels == {None, "l"}
BackupProjects ==
    {[id |-> "p", name |-> "P", description |-> None, client |-> None,
      hourly_rate |-> NoneDec, budget_hours |-> NoneDec, active |-> a,
      created_at |-> 0] : a \in {TRUE}}
BackupCategories ==
    {[id |-> "c", name |-> "C", color |-> None, parent_category |-> None,
      billable |-> b] : b \in {TRUE}}

BackupCall == \E l \in BackupLabels : Backup(l)
SaveProjectCall == \E x \in BackupProjects : SaveProject(x)
SaveCategoryCall == \E x \in BackupCategories : SaveCategory(x)
BackupAddCall == \E t \in RuleTasks : AddRule(<<"c">>, t)

NextBackup ==
    \/ BackupCall
    \/ SaveProjectCall
    \/ SaveCategoryCall
    \/ EditStartCall
    \/ BackupAddCall

SpecBackup == Init /\ [][NextBackup]_vars

\* -------------------------------------- two trackers on one data directory
\* Every call of the storage manager is one step; a tracker call that makes
\* two of them (start: get_current_entry, save_entry; switch: stop, start)
\* is two steps, and the other process may run between them.  proc[p].pc
\* says where process p is, proc[p].entry is the Entry it has built,
\* proc[p].res.entry what its stop() returned.
TwoTasks == {"A"}

BetweenCalls(p) == proc[p].pc = "idle"

\* start(): get_current_entry() and the check
StartCheck(p, task_name) ==
    LET current == get_current_entry(entries_file)
        entry == Entry(nextId, task_name, now, NoneDt, None, None, <<>>,
                       None, FALSE, now)
    IN /\ BetweenCalls(p)
       /\ IF current # NoEntry
          THEN /\ ret' = [op |-> "start", raised |-> "AlreadyTracking",
                          stopped |-> NoEntry, entry |-> NoEntry]
               /\ UNCHANGED <<proc, nextId>>
          ELSE /\ nextId <= MaxEntries
               /\ proc' = [proc EXCEPT ![p] =
                              [@ EXCEPT !.pc = "start_save", !.op = "start",
                                        !.entry = entry]]
               /\ nextId' = nextId + 1
               /\ ret' = ret
       /\ UNCHANGED <<entries_file, now, fs, ruleVars, rtVars, storeVars>>

\* start(): save_entry(entry) and the return, of start() or of switch()
StartSave(p) ==
    /\ proc[p].pc = "start_save"
    /\ entries_file' = save_entry_rows(entries_file, proc[p].entry, now)
    /\ ret' = [op |-> proc[p].op, raised |-> "",
               stopped |-> proc[p].res.entry,
               entry |-> [proc[p].entry EXCEPT !.updated_at = now]]
    /\ proc' = [proc EXCEPT ![p] = Idle(0, NoRes, "none")]
    /\ UNCHANGED <<now, nextId, fs, ruleVars, rtVars, storeVars>>

\* switch(): stop(), its ValueError swallowed
SwitchStop(p, task_name) ==
    LET s == stop_result(entries_file, None, now)
    IN /\ BetweenCalls(p)
       /\ entries_file' = s.rows
       /\ proc' = [proc EXCEPT ![p] =
                      [@ EXCEPT !.pc = "switch_start", !.op = "switch",
                                !.arg = task_name,
                                !.res = [NoRes EXCEPT !.entry = s.entry]]]
       /\ UNCHANGED <<now, nextId, ret, fs, ruleVars, rtVars, storeVars>>

\* switch() that undoes its stop() when its start() raises
SwitchStart_rollback(p) ==
    LET current == get_current_entry(entries_file)
        stopped == proc[p].res.entry
        entry == Entry(nextId, proc[p].arg, now, NoneDt, None, None, <<>>,
                       None, FALSE, now)
    IN /\ proc[p].pc = "switch_start"
       /\ IF current # NoEntry
          THEN /\ ret' = [op |-> "switch", raised |-> "AlreadyTracking",
                          stopped |-> stopped, entry |-> NoEntry]
               /\ proc' = [proc EXCEPT ![p] = Idle(0, NoRes, "none")]
               /\ entries_file' =
                      IF stopped = NoEntry THEN entries_file
                      ELSE save_entry_rows(entries_file,
                               [stopped EXCEPT !.end_time = NoneDt], now)
               /\ UNCHANGED nextId
          ELSE /\ nextId <= MaxEntries
               /\ proc' = [proc EXCEPT ![p] =
                              [@ EXCEPT !.pc = "start_save", !.entry = entry]]
               /\ nextId' = nextId + 1
               /\ UNCHANGED <<ret, entries_file>>
       /\ UNCHANGED <<now, fs, ruleVars, rtVars, storeVars>>

\* switch(): the get_current_entry() and the check of its start(); the
\* ValueError of start() leaves switch() as it is
SwitchStart(p) ==
    LET current == get_current_entry(entries_file)
        entry == Entry(nextId, proc[p].arg, now, NoneDt, None, None, <<>>,
                       None, FALSE, now)
    IN /\ proc[p].pc = "switch_start"
       /\ IF current # NoEntry
          THEN /\ ret' = [op |-> "switch", raised |-> "AlreadyTracking",
                          stopped |-> proc[p].res.entry, entry |-> NoEntry]
               /\ proc' = [proc EXCEPT ![p] = Idle(0, NoRes, "none")]
               /\ UNCHANGED nextId
          ELSE /\ nextId <= MaxEntries
               /\ proc' = [proc EXCEPT ![p] =
                              [@ EXCEPT !.pc = "start_save", !.entry = entry]]
               /\ nextId' = nextId + 1
               /\ ret' = ret
       /\ UNCHANGED <<entries_file, now, fs, ruleVars, rtVars, storeVars>>

TwoStopCall == (\E p \in Procs : BetweenCalls(p)) /\ Stop(None)
TwoStatusCall == (\E p \in Procs : BetweenCalls(p)) /\ Status

NextTwo ==
    \/ \E p \in Procs :
           \/ \E t \in TwoTasks : StartCheck(p, t)
           \/ StartSave(p)
           \/ \E t \in TwoTasks : SwitchStop(p, t)
           \/ SwitchStart(p)
    \/ TwoStopCall
    \/ TwoStatusCall
    \/ Tick

SpecTwo == Init /\ [][NextTwo]_vars

\* one engine, and rules.csv written past it: save_rule and delete_rule of
\* the storage manager called directly, as another engine or process does
SaveRule(rule) ==
    /\ rules_file' = save_rule_rows(rules_file, rule)
    /\ rret' = [op |-> "save_rule", name |-> <<>>, rule |-> rule,
                found |-> \E i \in 1..Len(rules_file) :
                             rules_file[i].id = rule.id]
    /\ nextRuleId' = IF rule.id = ToString(nextRuleId) THEN nextRuleId + 1
                     ELSE nextRuleId
    /\ UNCHANGED <<rules_cache, nonRules>>

StorageDeleteRule(rule_id) ==
    LET rows == delete_rule_rows(rules_file, rule_id)
    IN /\ rules_file' = rows
       /\ rret' = [op |-> "storage_delete", name |-> <<>>, rule |-> NoRule,
                   found |-> Len(rows) # Len(rules_file)]
       /\ UNCHANGED <<rules_cache, nextRuleId, nonRules>>

SaveRuleCall ==
    /\ nextRuleId <= MaxRules
    /\ \E p \in Patterns, t \in RuleTasks :
           SaveRule(ProcessRule(ToString(nextRuleId), p, t, None, None, <<>>,
                                FALSE, ConfOne, now))

StorageDeleteRuleCall == \E id \in RuleIds : StorageDeleteRule(id)

NextExt ==
    \/ MatchCall
    \/ AddCall
    \/ DeleteCall
    \/ SaveRuleCall
    \/ StorageDeleteRuleCall

SpecExt == Init /\ [][NextExt]_vars

\* rule engine calls with any float as the confidence of learn_rule
ConfArgsAny == {0 - ConfStep, 8, ConfOne + 2 * ConfStep}

LearnAnyCall ==
    \E n \in {<<"c">>}, t \in RuleTasks, c \in ConfArgsAny : LearnRule(n, t, c)

NextConf ==
    \/ LearnAnyCall
    \/ AddCall
    \/ UpdateCall
    \/ IncrementCall

SpecConf == Init /\ [][NextConf]_vars

\* ------------------------------------------ specifications of processes
\* storage calls by several processes at once
SaveCall(p) == \E t \in {"A"} : Call(p, "save", t)
DeleteCall_(p) == \E id \in {StrUUID(1)} : Call(p, "delete", id)
LoadCall(p) == Call(p, "load", "")

NextProc ==
    \E p \in Procs :
        \/ SaveCall(p)
        \/ DeleteCall_(p)
        \/ LoadCall(p)
        \/ ROpen(p)
        \/ RRead(p)
        \/ WOpen(p)
        \/ WLock(p)
        \/ WFlush(p)
        \/ WRename(p)

SpecProc == Init /\ [][NextProc]_vars

\* storage calls, one writer at a time, that may fail or be killed
Writing(q) == proc[q].pc \notin {"idle", "dead"} /\ proc[q].op # "load"

SoloSaveCall(p) == (\A q \in Procs \ {p} : ~Writing(q)) /\ SaveCall(p)
SoloDeleteCall(p) == (\A q \in Procs \ {p} : ~Writing(q)) /\ DeleteCall_(p)

NextSolo ==
    \E p \in Procs :
        \/ SoloSaveCall(p)
        \/ SoloDeleteCall(p)
        \/ LoadCall(p)
        \/ ROpen(p)
        \/ RRead(p)
        \/ WOpen(p)
        \/ WLock(p)
        \/ WFlush(p)
        \/ WRename(p)
        \/ WFail(p)
        \/ Kill(p)

SpecSolo == Init /\ [][NextSolo]_vars

\* tracker calls by several processes at once
RaceTasks == {"A"}

StartCallBy(p) == \E t \in RaceTasks : Call(p, "start", t)
StopCallBy(p) == Call(p, "stop", "")

NextRace ==
    \E p \in Procs :
        \/ StartCallBy(p)
        \/ StopCallBy(p)
        \/ ROpen(p)
        \/ RRead(p)
        \/ WOpen(p)
        \/ WLock(p)
        \/ WFlush(p)
        \/ WRename(p)

SpecRace == Init /\ [][NextRace]_vars

\* ------------------------------------------------ serialisation round trip
\* the entities handed to serialisation: every bool at both values, every
\* optional absent and present (present ones non-empty, Decimals non-zero)
TagLists == {<<>>, << <<"t">> >>, << <<"t">>, <<"u">> >>}

EntryInputs ==
    {[id |-> 1, task_name |-> "A", start_time |-> 0, end_time |-> e,
      project |-> p, category |-> None, tags |-> tg, notes |-> n,
      active_process |-> None, active_window |-> None,
      idle_time_seconds |-> i, manual_entry |-> m, edited |-> ed,
      auto_tracked |-> a, rule_id |-> None, created_at |-> 0,
      updated_at |-> 0] :
        e \in {NoneDt, 1}, p \in {None, "p"}, tg \in TagLists,
        n \in {None, "n"}, i \in {0, 1}, m \in BOOLEAN, ed \in BOOLEAN,
        a \in BOOLEAN}

ProjectInputs ==
    {[id |-> "p", name |-> "P", description |-> d, client |-> None,
      hourly_rate |-> h, budget_hours |-> b, active |-> a, created_at |-> 0] :
        d \in {None, "d"}, h \in {NoneDec} \cup 1..MaxRate,
        b \in {NoneDec, 1}, a \in BOOLEAN}

CategoryInputs ==
    {[id |-> "c", name |-> "C", color |-> c, parent_category |-> None,
      billable |-> b] : c \in {None, "#fff"}, b \in BOOLEAN}

RuleInputs ==
    {[id |-> "1", pattern |-> <<"c">>, task_name |-> "T", project |-> None,
      category |-> None, tags |-> tg, enabled |-> e, learned |-> l,
      confidence |-> c, match_count |-> m, created_at |-> 0] :
        tg \in TagLists, e \in BOOLEAN, l \in BOOLEAN, c \in {8, ConfOne},
        m \in 0..MaxMatchCount}

RTInputs ==
    {[kind |-> "entry", x |-> x] : x \in EntryInputs}
    \cup {[kind |-> "project", x |-> x] : x \in ProjectInputs}
    \cup {[kind |-> "category", x |-> x] : x \in CategoryInputs}
    \cup {[kind |-> "rule", x |-> x] : x \in RuleInputs}

\* from_dict(x.to_dict())
via_dict(kind, x) ==
    CASE kind = "entry" -> Entry_from_to_dict(Entry_to_dict(x))
      [] kind = "project" -> Project_from_dict_of(Project_to_dict(x), TRUE)
      [] kind = "category" ->
             Category_from_dict_of(Category_to_dict(x), TRUE)
      [] kind = "rule" -> ProcessRule_from_to_dict(ProcessRule_to_dict(x))

\* save_*(x) into an empty collection, then load_*()[0]
via_storage(kind, x, t) ==
    CASE kind = "entry" -> load_entries(save_entry_rows(<<>>, x, t), 0)[1]
      [] kind = "project" ->
             load_projects(save_row(<<>>, x.id,
                                    Project_csv_row(Project_to_dict(x))))[1]
      [] kind = "category" ->
             load_categories(save_row(<<>>, x.id,
                                      Category_csv_row(Category_to_dict(x))))[1]
      [] kind = "rule" -> load_rules(save_rule_rows(<<>>, x), FALSE)[1]

RoundTripDict ==
    /\ rt_out' = [kind |-> rt_in.kind, via |-> "dict",
                  x |-> via_dict(rt_in.kind, rt_in.x)]
    /\ UNCHANGED <<rt_in, now, trackerVars, ruleVars, procVars, storeVars>>

RoundTripStorage ==
    /\ rt_out' = [kind |-> rt_in.kind, via |-> "storage",
                  x |-> via_storage(rt_in.kind, rt_in.x, now)]
    /\ UNCHANGED <<rt_in, now, trackerVars, ruleVars, procVars, storeVars>>

InitRoundTrip ==
    /\ InitTracker
    /\ InitRules
    /\ InitProc
    /\ InitStore
    /\ rt_in \in RTInputs
    /\ rt_out = NoRT

NextRT ==
    \/ RoundTripDict
    \/ RoundTripStorage

SpecRT == InitRoundTrip /\ [][NextRT]_vars

\* ------------------------------------------------------------ properties
RowOf(rows, id) == CHOOSE i \in 1..Len(rows) : rows[i].id = StrUUID(id)
HasRow(rows, id) == \E i \in 1..Len(rows) : rows[i].id = StrUUID(id)

\* C1: after any sequence of start/stop/switch calls by one tracker on an
\* initially empty store, at most one stored entry has a null end_time.
C1_AtMostOneRunning == Cardinality(Running(entries_file)) <= 1

\* start, stop, start: a stopped entry and a running one in storage
C1_Witness ==
    /\ ret.op = "start" /\ ret.raised = ""
    /\ Len(entries_file) = 2
    /\ Cardinality(Running(entries_file)) = 1

\* C5: start() while an entry is running raises AlreadyTracking and writes
\* nothing: storage is the same, the running entry is still the only one.
C5_StartWhileRunning ==
    [][(StartCall /\ Running(entries_file) # {})
         => /\ ret'.raised = "AlreadyTracking"
            /\ ret'.entry = NoEntry
            /\ entries_file' = entries_file
            /\ Cardinality(Running(entries_file')) = 1]_vars

C5_Witness ==
    /\ ret.op = "start" /\ ret.raised = "AlreadyTracking"
    /\ Cardinality(Running(entries_file)) = 1

C7_Switch ==
    [][SwitchCall
         => LET prev == get_current_entry(entries_file)
                new == ret'.entry
            IN /\ ret'.raised = ""
               /\ new # NoEntry /\ is_running(new)
               /\ ~HasRow(entries_file, new.id)
               /\ Running(entries_file') = {RowOf(entries_file', new.id)}
               /\ entries_file'[RowOf(entries_file', new.id)].task_name
                      = new.task_name
               /\ Len(entries_file') = Len(entries_file) + 1
               /\ prev = NoEntry => ret'.stopped = NoEntry
               /\ prev # NoEntry =>
                     /\ ret'.stopped # NoEntry
                     /\ ret'.stopped.id = prev.id
                     /\ ret'.stopped.end_time # NoneDt
                     /\ entries_file'[RowOf(entries_file', prev.id)].end_time
                            # ""]_vars

\* a switch() out of Tracking has returned
C7_Witness ==
    /\ ret.op = "switch" /\ ret.raised = ""
    /\ ret.stopped # NoEntry
    /\ Len(entries_file) = 2
    /\ Cardinality(Running(entries_file)) = 1

\* a stored row is an enabled rule that matches the process name
RowMatches(row, process_name) ==
    row.enabled = "True" /\ matches([pattern |-> row.pattern], process_name)

\* C4: with one explicit and one learned rule in storage, both enabled and
\* both matching the process name, match_process returns the explicit rule.
C4_ExplicitWins ==
    \A i, j \in 1..Len(rules_file) :
        (/\ rret.op = "match"
         /\ Len(rules_file) = 2
         /\ rules_file[i].learned = "False"
         /\ rules_file[j].learned = "True"
         /\ RowMatches(rules_file[i], rret.name)
         /\ RowMatches(rules_file[j], rret.name))
        => (rret.found /\ rret.rule.id = rules_file[i].id)

\* C10: match_process never returns a rule that storage holds as disabled,
\* whether it was stored disabled or disabled by update_rule.
C10_NeverDisabled ==
    (rret.op = "match" /\ rret.found) =>
              \A i \in 1..Len(rules_file) :
                  rules_file[i].id = rret.rule.id
                      => rules_file[i].enabled = "True"

\* C9: parsing the serialised form of an entity gives back every field of
\* the entity, through to_dict/from_dict and through save and load.
C9_RoundTrip == rt_out.kind # "none" => rt_out.x = rt_in.x

\* the to_dict/from_dict half of C9 on its own
C9_DictRoundTrip ==
    (rt_out.kind # "none" /\ rt_out.via = "dict") => rt_out.x = rt_in.x

\* what a reader of entries.csv finds
RealFile == fs.content[fs.real]

\* C2: whatever writers and readers of entries.csv do at once, every read
\* finds a complete file, never an empty, cut or overwritten one.
C2_NoTornRead == \A p \in Procs : proc[p].seen \in {"none", "complete"}

\* C3: a write that does not get to its rename leaves entries.csv as it
\* was: only a rename that succeeds changes what a reader finds there; an
\* OSError during the write removes entries.tmp and reaches the caller; no
\* read finds anything but a complete file.
C3_FailedWriteLeavesOriginal ==
    [][/\ \A p \in Procs : proc'[p].seen \in {"none", "complete"}
       /\ RealFile' # RealFile =>
            \E p \in Procs : /\ proc[p].pc = "w_rename"
                              /\ proc'[p].pc = "idle"
                              /\ proc'[p].res.raised = ""
                              /\ RealFile' = Complete(proc[p].rows)
       /\ \A p \in Procs :
            (WFail(p) \/ Kill(p)) => RealFile' = RealFile
       /\ \A p \in Procs :
            WFail(p) => /\ fs'.tmp = 0
                        /\ proc'[p].pc = "idle"
                        /\ proc'[p].res.raised = "OSError"]_vars

\* a second save has failed with an OSError, the process that wrote the
\* first one was killed in a later write, and entries.csv still has the row
\* of the first save
C3_Witness ==
    \E p, q \in Procs :
        /\ proc[p].res.op = "save" /\ proc[p].res.raised = "OSError"
        /\ proc[q].pc = "dead"
        /\ RealFile.kind = "complete" /\ Len(RealFile.rows) = 1
        /\ nextId = 3

\* C8: start() decides on its own read of storage and reserves nothing:
\* a start() that read no running entry goes on to save its entry holding
\* no lock and having written nothing, so two processes that both read an
\* idle store both write and storage ends with two running entries.
C8_CheckThenAct ==
    [][\A p \in Procs :
          (/\ RRead(p)
           /\ proc[p].stage = "current" /\ proc[p].phase = "start"
           /\ fs.content[proc[p].fd].kind # "garbage"
           /\ Running(fs.content[proc[p].fd].rows) = {})
          => /\ proc'[p].pc = "r_open" /\ proc'[p].stage = "save"
             /\ proc'[p].entry # NoEntry /\ is_running(proc'[p].entry)
             /\ \A i \in Inodes : fs'.lock[i] # p
             /\ RealFile' = RealFile]_vars

\* both start() calls have returned their entry and both are running
C8_Witness ==
    /\ \A p \in Procs :
          /\ proc[p].pc = "idle"
          /\ proc[p].res.op = "start" /\ proc[p].res.raised = ""
          /\ proc[p].calls = 1
    /\ RealFile.kind = "complete"
    /\ Cardinality(Running(RealFile.rows)) = 2

\* the rows of rules.csv that hold pattern n
RowsOfPattern(rows, n) == {i \in 1..Len(rows) : rows[i].pattern = n}
RuleRowIds(rows) == {rows[i].id : i \in 1..Len(rows)}

\* C11: learn_rule(p, ...) with an explicit rule as the only stored rule of
\* pattern p adds a separate learned rule and leaves the explicit rule's
\* task_name, project, category, tags, confidence and match_count alone.
C11_LearnKeepsExplicit ==
    [][\A n \in ProcNames \ {<<>>}, t \in RuleTasks, c \in ConfArgs :
          (/\ LearnRule(n, t, c)
           /\ Cardinality(RowsOfPattern(rules_file, n)) = 1
           /\ \A i \in RowsOfPattern(rules_file, n) :
                  rules_file[i].learned = "False")
          => /\ Len(rules_file') = Len(rules_file) + 1
             /\ rret'.rule.learned
             /\ rret'.rule.id \notin RuleRowIds(rules_file)
             /\ \A i \in RowsOfPattern(rules_file, n) :
                   \E j \in 1..Len(rules_file') :
                      /\ rules_file'[j].id = rules_file[i].id
                      /\ rules_file'[j].learned = "False"
                      /\ rules_file'[j].task_name = rules_file[i].task_name
                      /\ rules_file'[j].project = rules_file[i].project
                      /\ rules_file'[j].category = rules_file[i].category
                      /\ rules_file'[j].tags = rules_file[i].tags
                      /\ rules_file'[j].confidence = rules_file[i].confidence
                      /\ rules_file'[j].match_count
                             = rules_file[i].match_count]_vars

\* the stored learned rules of pattern n
LearnedOfPattern(rows, n) ==
    {i \in RowsOfPattern(rows, n) : rows[i].learned = "True"}

\* C12: learn_rule(p, ...) updates the stored learned rule of pattern p when
\* there is one (new task, confidence + 0.1 up to 1.0, match_count + 1, no
\* new rule) and otherwise appends one learned rule with the confidence
\* given and match_count 0, every other rule left as it was.
C12_LearnUpdatesOrCreates ==
    [][\A n \in ProcNames \ {<<>>}, t \in RuleTasks, c \in ConfArgs :
          LearnRule(n, t, c) =>
             IF LearnedOfPattern(rules_file, n) # {}
             THEN /\ Len(rules_file') = Len(rules_file)
                  /\ \E i \in LearnedOfPattern(rules_file, n) :
                        LET old == PyFloat(rules_file[i].confidence)
                        IN /\ rules_file'[i].id = rules_file[i].id
                           /\ rules_file'[i].task_name = t
                           /\ rules_file'[i].confidence =
                                 StrFloat(IF old + ConfStep <= ConfOne
                                          THEN old + ConfStep ELSE ConfOne)
                           /\ rules_file'[i].match_count =
                                 StrCount(PyIntCount(rules_file[i].match_count)
                                          + 1)
                           /\ \A j \in 1..Len(rules_file) \ {i} :
                                 rules_file'[j] = rules_file[j]
             ELSE /\ Len(rules_file') = Len(rules_file) + 1
                  /\ SubSeq(rules_file', 1, Len(rules_file)) = rules_file
                  /\ LET new == rules_file'[Len(rules_file')]
                     IN /\ new.id \notin RuleRowIds(rules_file)
                        /\ new.pattern = n /\ new.task_name = t
                        /\ new.learned = "True"
                        /\ new.confidence = StrFloat(c)
                        /\ new.match_count = StrCount(0)]_vars

\* C13: whatever confidence learn_rule is given, and however often it is
\* called, every stored rule has a confidence of 0.0 to 1.0.
C13_ConfidenceInRange ==
    \A i \in 1..Len(rules_file) :
        /\ PyFloat(rules_file[i].confidence) >= 0
        /\ PyFloat(rules_file[i].confidence) <= ConfOne

\* the ids of the rules in a cache, and of the enabled rows of rules.csv
CacheIds(cache) == [i \in 1..Len(cache.rules) |-> cache.rules[i].id]
EnabledIds(rows) ==
    LET e == SelectSeq(rows, LAMBDA r : r.enabled = "True")
    IN [i \in 1..Len(e) |-> e[i].id]

\* C14: the cache is empty until the first match_process fills it, and
\* after each mutation made through the engine it holds the rules that
\* storage has as enabled.
C14_CacheIsEnabledRules ==
    /\ ~rules_cache.loaded
    /\ [][/\ (MatchCall /\ rret'.name # <<>>) => rules_cache'.loaded
          /\ (\/ LearnCall
              \/ AddCall
              \/ IncrementCall
              \/ UpdateCall /\ rret'.found
              \/ DeleteCall /\ rret'.found)
             => /\ rules_cache'.loaded
                /\ CacheIds(rules_cache') = EnabledIds(rules_file')]_vars

\* the refresh that C14 is about: after each mutation the cache is what
\* load_rules(enabled_only=True) returns
C14_CacheRefreshed ==
    [][(\/ LearnCall
        \/ AddCall
        \/ IncrementCall
        \/ UpdateCall /\ rret'.found
        \/ DeleteCall /\ rret'.found)
       => rules_cache' = [loaded |-> TRUE,
                          rules |-> load_rules(rules_file', TRUE)]]_vars

\* no two rows of entries.csv have the same id
UniqueIds(rows) ==
    \A i, j \in 1..Len(rows) : rows[i].id = rows[j].id => i = j

\* C15: save_entry appends a row when the id is not stored and otherwise
\* replaces the row of that id where it stands, every other row and the
\* number of rows the same; ids stay unique under saves and deletes.
C15_SaveInsertsOrOverwrites ==
    [][/\ UniqueIds(entries_file')
       /\ \A e \in StoreEntries :
            SaveEntry(e) =>
               LET row == Entry_to_row([e EXCEPT !.updated_at = now])
               IN IF HasRow(entries_file, e.id)
                  THEN /\ Len(entries_file') = Len(entries_file)
                       /\ \A i \in 1..Len(entries_file) :
                             entries_file'[i] =
                                IF entries_file[i].id = StrUUID(e.id)
                                THEN row ELSE entries_file[i]
                  ELSE entries_file' = Append(entries_file, row)]_vars

\* the first of two stored entries was saved again, later than it was made
C15_Witness ==
    /\ ret.op = "save" /\ ret.found
    /\ Len(entries_file) = 2
    /\ entries_file[1].id = StrUUID(ret.entry.id)
    /\ entries_file[1].updated_at # entries_file[1].created_at

\* C16: start() while nothing runs stores one new running entry of the
\* task given; status() writes nothing and, called after that start(),
\* returns the same entry, still running.
C16_StartThenStatus ==
    [][/\ \A t \in TrackTasks, p \in ProjectArgs, n \in TrackNotes :
            (Start(t, p, n) /\ Running(entries_file) = {})
            => /\ ret'.raised = ""
               /\ ret'.entry.task_name = t /\ is_running(ret'.entry)
               /\ ~HasRow(entries_file, ret'.entry.id)
               /\ Len(entries_file') = Len(entries_file) + 1
               /\ SubSeq(entries_file', 1, Len(entries_file)) = entries_file
               /\ LET new == entries_file'[Len(entries_file')]
                  IN /\ new.id = StrUUID(ret'.entry.id)
                     /\ new.task_name = t
                     /\ new.end_time = ""
       /\ StatusCall
            => /\ entries_file' = entries_file
               /\ (ret.op = "start" /\ ret.raised = "")
                    => /\ ret'.entry # NoEntry
                       /\ ret'.entry.id = ret.entry.id
                       /\ ret'.entry.task_name = ret.entry.task_name
                       /\ is_running(ret'.entry)]_vars

\* status() right after a start() that found an earlier entry in storage
C16_Witness ==
    /\ ret.op = "status" /\ ret.after = "start"
    /\ ret.entry # NoEntry /\ is_running(ret.entry)
    /\ Len(entries_file) = 2

\* C17: stop() with one entry running gives that entry an end_time and
\* stores it; nothing runs afterwards, the number of entries is the same
\* and the notes change only to notes that were passed.
C17_Stop ==
    [][\A n \in NotesArgs :
          (Stop(n) /\ Cardinality(Running(entries_file)) = 1)
          => LET k == CHOOSE i \in Running(entries_file) : TRUE
             IN /\ ret'.raised = ""
                /\ ret'.entry.end_time = now
                /\ Len(entries_file') = Len(entries_file)
                /\ Running(entries_file') = {}
                /\ entries_file'[k].id = entries_file[k].id
                /\ entries_file'[k].end_time = isoformat(now)
                /\ entries_file'[k].notes # entries_file[k].notes
                      => (n # None /\ entries_file'[k].notes = n)
                /\ \A i \in 1..Len(entries_file) \ {k} :
                      entries_file'[i] = entries_file[i]]_vars

\* a stop() without notes has kept the notes the entry was started with
C17_Witness ==
    /\ ret.op = "stop" /\ ret.raised = ""
    /\ ret.entry.notes = "m"
    /\ Running(entries_file) = {}
    /\ \E i \in 1..Len(entries_file) :
          /\ entries_file[i].id = StrUUID(ret.entry.id)
          /\ entries_file[i].notes = "m" /\ entries_file[i].end_time # ""

\* C18: cancel_current() with an entry running takes its row out of
\* storage and returns True, the other rows as they were and nothing
\* running; with nothing running it returns False and writes nothing.
C18_Cancel ==
    [][CancelCall
         => IF Running(entries_file) # {}
            THEN LET k == CHOOSE i \in Running(entries_file) : TRUE
                 IN /\ ret'.result
                    /\ Len(entries_file') = Len(entries_file) - 1
                    /\ ~\E i \in 1..Len(entries_file') :
                           entries_file'[i].id = entries_file[k].id
                    /\ entries_file' =
                          SubSeq(entries_file, 1, k - 1)
                             \o SubSeq(entries_file, k + 1, Len(entries_file))
                    /\ Running(entries_file') = {}
            ELSE /\ ~ret'.result
                 /\ entries_file' = entries_file]_vars

\* the running entry was cancelled and an earlier entry is still stored
C18_Witness ==
    /\ ret.op = "cancel" /\ ret.result
    /\ Len(entries_file) = 1
    /\ nextId = 3

\* C19: add_manual_entry with end_time <= start_time raises InvalidRange
\* and writes nothing.
C19_InvalidRange ==
    [][\A t \in ManualTasks, s \in ManualStarts, e \in ManualEnds,
         p \in ProjectArgs, n \in StartNotesArgs :
          (AddManualEntry(t, s, e, p, n) /\ e <= s)
          => /\ ret'.raised = "InvalidRange"
             /\ ret'.entry = NoEntry
             /\ entries_file' = entries_file
             /\ nextId' = nextId]_vars

\* add_manual_entry with end_time equal to start_time has raised
C19_Witness ==
    /\ ret.op = "manual" /\ ret.raised = "InvalidRange"
    /\ ret.range[1] = ret.range[2]
    /\ entries_file # <<>>

\* C20: add_manual_entry with end_time > start_time stores one new entry
\* that has its end_time and manual_entry set, whether or not an entry is
\* running, and the running entry stays as it is.
C20_ManualEntry ==
    [][\A t \in ManualTasks, s \in ManualStarts, e \in ManualEnds,
         p \in ProjectArgs, n \in StartNotesArgs :
          (AddManualEntry(t, s, e, p, n) /\ e > s)
          => /\ ret'.raised = ""
             /\ ret'.entry.manual_entry /\ ~is_running(ret'.entry)
             /\ ~HasRow(entries_file, ret'.entry.id)
             /\ Len(entries_file') = Len(entries_file) + 1
             /\ SubSeq(entries_file', 1, Len(entries_file)) = entries_file
             /\ LET new == entries_file'[Len(entries_file')]
                IN /\ new.id = StrUUID(ret'.entry.id)
                   /\ new.task_name = t
                   /\ new.start_time = isoformat(s)
                   /\ new.end_time = isoformat(e)
                   /\ new.manual_entry = "True"
             /\ Running(entries_file') = Running(entries_file)
             /\ get_current_entry(entries_file')
                   = get_current_entry(entries_file)]_vars

\* a manual entry was added while another entry was running
C20_Witness ==
    /\ ret.op = "manual" /\ ret.raised = ""
    /\ Len(entries_file) = 2
    /\ Cardinality(Running(entries_file)) = 1

\* the row of the entry with this id cell
RowOfId(rows, entry_id) == CHOOSE i \in 1..Len(rows) : rows[i].id = entry_id
HasRowId(rows, entry_id) == \E i \in 1..Len(rows) : rows[i].id = entry_id

\* the columns an edit_entry() call with these arguments may change
EditColumns(task_name, project, notes, start_time, end_time) ==
    {"edited", "updated_at"}
    \cup (IF task_name # None THEN {"task_name"} ELSE {})
    \cup (IF project # None THEN {"project"} ELSE {})
    \cup (IF notes # None THEN {"notes"} ELSE {})
    \cup (IF start_time # NoneDt THEN {"start_time", "duration_seconds"} ELSE {})
    \cup (IF end_time # NoneDt THEN {"end_time", "duration_seconds"} ELSE {})

\* C21: edit_entry with an id that is not stored raises NotFound and leaves
\* storage unchanged; with a stored id it changes only the supplied fields,
\* edited (to true) and updated_at (to now): every other column of the row,
\* manual_entry and auto_tracked among them, and every other row stay as
\* they were.
C21_EditOnlySupplied ==
    [][\A id \in EntryIds, t \in EditTasks, s \in EditStarts, e \in EditEnds :
          EditEntry(id, t, None, None, s, e) =>
              IF ~HasRowId(entries_file, id)
              THEN ret'.raised = "NotFound" /\ entries_file' = entries_file
              ELSE /\ ret'.raised = ""
                   /\ Len(entries_file') = Len(entries_file)
                   /\ \A i \in 1..Len(entries_file) :
                          IF entries_file[i].id # id
                          THEN entries_file'[i] = entries_file[i]
                          ELSE /\ \A c \in DOMAIN entries_file[i]
                                         \ EditColumns(t, None, None, s, e) :
                                      entries_file'[i][c] = entries_file[i][c]
                               /\ entries_file'[i].edited = "True"
                               /\ entries_file'[i].updated_at = isoformat(now)
                               /\ t # None => entries_file'[i].task_name = t
                               /\ s # NoneDt =>
                                      entries_file'[i].start_time = isoformat(s)
                               /\ e # NoneDt =>
                                      entries_file'[i].end_time = isoformat(e)]_vars

\* C27: no call but start() and switch() adds a running entry (a manual
\* entry is completed, edit_entry sets end_time and never clears it, stop,
\* cancel_current and delete_entry only take a running entry away), so at
\* most one entry is running after any sequence of the tracker's calls by
\* one process.
C27_OnlyStartAddsRunning ==
    [][/\ Cardinality(Running(entries_file)) <= 1
       /\ Cardinality(Running(entries_file')) <= 1
       /\ (EditCall \/ DeleteEntryCall \/ CancelCall \/ EditManualCall
           \/ EditStopCall) =>
              Cardinality(Running(entries_file'))
                  <= Cardinality(Running(entries_file))]_vars

\* an edit of a completed entry that supplied no end_time has left it
\* completed while another entry is running
C27_Witness ==
    /\ ret.op = "edit" /\ ret.raised = ""
    /\ ret.entry.end_time # NoneDt
    /\ ret.entry.end_time # 0
    /\ Cardinality(Running(entries_file)) = 1
    /\ Len(entries_file) = 2

\* C28: after any sequence of the tracker's calls every completed entry in
\* storage ends no earlier than it starts: no duration is negative.
C28_NoNegativeDuration ==
    \A i \in 1..Len(entries_file) :
        entries_file[i].end_time # "" =>
            fromisoformat(entries_file[i].end_time)
                >= fromisoformat(entries_file[i].start_time)

\* the entries of storage that pass the filters of a get_entries() call
PassesFilters(entry, project, start_date) ==
    /\ project # None => entry.project = project
    /\ start_date # NoneDt => entry.start_time >= start_date

\* C22: for every limit passed to get_entries, only the limit most recent
\* entries (by start_time) are considered: the result is exactly those of
\* them that pass the filters, it never has more than limit entries, and it
\* may have fewer than limit although more entries in storage pass.
C22_LimitThenFilter ==
    (ret.op = "get_entries" /\ ret.limit # <<>>) =>
        LET all == load_entries(entries_file, 0)
            n == IF ret.limit[1] < Len(all) THEN ret.limit[1] ELSE Len(all)
            considered == SubSeq(all, 1, n)
            Passes(e) == PassesFilters(e, ret.project, ret.start_date)
        IN /\ Len(ret.entries) <= ret.limit[1]
           /\ ret.entries = SelectSeq(considered, Passes)

\* the stored rows that are enabled and match the process name
MatchingRows(rows, process_name) ==
    {i \in 1..Len(rows) : RowMatches(rows[i], process_name)}

\* row a is at least row b in (confidence, match_count)
RowKeyGeq(a, b) ==
    \/ PyFloat(a.confidence) > PyFloat(b.confidence)
    \/ /\ PyFloat(a.confidence) = PyFloat(b.confidence)
       /\ PyIntCount(a.match_count) >= PyIntCount(b.match_count)

\* C23: when no enabled explicit rule matches the process name,
\* match_process returns the enabled learned rule that matches with the
\* highest confidence, ties broken by the highest match_count; it returns
\* not-found only when no enabled rule matches or the name is empty.
C23_BestLearned ==
    rret.op = "match" =>
        LET hits == MatchingRows(rules_file, rret.name)
            explicit == {i \in hits : rules_file[i].learned = "False"}
        IN /\ (rret.name # <<>> /\ hits # {} /\ explicit = {}) =>
                  /\ rret.found
                  /\ \E i \in hits :
                         /\ rules_file[i].id = rret.rule.id
                         /\ \A j \in hits :
                                RowKeyGeq(rules_file[i], rules_file[j])
           /\ ~rret.found => (hits = {} \/ rret.name = <<>>)

\* the four collection files
CollectionFiles == {"entries.csv", "projects.csv", "categories.csv", "rules.csv"}

\* C24: backup(label) copies every one of the four collection files
\* (entries, projects, categories, rules) into the backup subdirectory named
\* by label, or by the timestamp when label is None, and leaves the
\* originals unchanged.
C24_BackupCopiesAll ==
    [][\A l \in BackupLabels :
          Backup(l) =>
              /\ ret'.path = (IF l = None THEN strftime(now) ELSE l)
              /\ ret'.path \in DOMAIN backup_dir'
              /\ \A f \in CollectionFiles :
                     /\ f \in DOMAIN backup_dir'[ret'.path]
                     /\ backup_dir'[ret'.path][f] = DataDir[f]
              /\ DataDir' = DataDir]_vars

\* C25: when two processes each save_entry one new entry, the two ids
\* different, then once both calls have returned neither has raised and
\* entries.csv holds both entries: no write through the shared entries.tmp
\* is lost or fails.
C25_BothSavesStored ==
    (\A p \in Procs : /\ proc[p].pc = "idle"
                      /\ proc[p].calls = 1
                      /\ proc[p].res.op = "save") =>
        /\ \A p \in Procs : proc[p].res.raised = ""
        /\ RealFile.kind = "complete"
        /\ \A id \in 1..Cardinality(Procs) : HasRow(RealFile.rows, id)

LatestRunning(rows) ==
    {i \in Running(rows) :
        \A j \in Running(rows) :
            fromisoformat(rows[i].start_time) >= fromisoformat(rows[j].start_time)}

\* C29: on a store with several running entries (two processes raced in
\* start()), status() returns and stop() stops the running entry of the
\* latest start_time, each stop() takes the number of running entries down
\* by exactly one, so k stops lead back to Idle, and start() raises
\* AlreadyTracking and writes nothing as long as an entry is running.
C29_SeveralRunning ==
    [][/\ (TwoStatusCall /\ Running(entries_file) # {}) =>
              \E i \in LatestRunning(entries_file) :
                  /\ StrUUID(ret'.entry.id) = entries_file[i].id
                  /\ ret'.entry.end_time = NoneDt
       /\ (TwoStopCall /\ Running(entries_file) # {}) =>
              /\ ret'.raised = ""
              /\ Cardinality(Running(entries_file'))
                     = Cardinality(Running(entries_file)) - 1
              /\ \E i \in LatestRunning(entries_file) :
                     /\ StrUUID(ret'.entry.id) = entries_file[i].id
                     /\ entries_file'[i].end_time = isoformat(now)
                     /\ \A j \in 1..Len(entries_file) \ {i} :
                            entries_file'[j] = entries_file[j]
       /\ \A p \in Procs, t \in TwoTasks :
              (StartCheck(p, t) /\ Running(entries_file) # {}) =>
                  /\ ret'.op = "start" /\ ret'.raised = "AlreadyTracking"
                  /\ entries_file' = entries_file
                  /\ proc' = proc]_vars

\* two entries that were running at the same time have both been stopped:
\* stop() has brought the store back to Idle
C29_Witness ==
    /\ ret.op = "stop" /\ ret.raised = ""
    /\ Running(entries_file) = {}
    /\ \E i, j \in 1..Len(entries_file) :
           /\ fromisoformat(entries_file[i].start_time)
                  < fromisoformat(entries_file[j].start_time)
           /\ fromisoformat(entries_file[j].start_time)
                  < fromisoformat(entries_file[i].end_time)

\* C30 as it was claimed: what match_process returns is what the rules now
\* in storage give, also after rules were saved or deleted past the engine.
C30_MatchSeesStorage ==
    (rret.op = "match" /\ rret.name # <<>>) =>
        rret.rule = match_process(rules_file, NoCache, rret.name).rule

\* C30: match_process on an engine whose cache is populated answers from
\* the cache, the rules as the engine loaded them at its first match or at
\* its own last learn/add/update/delete: it does not read storage and
\* leaves the cache as it is.  A save_rule or delete_rule past the engine
\* does not touch the cache, so a rule saved that way is not matched and a
\* rule deleted that way is still returned, until the engine's own next
\* mutation refreshes the cache.
C30_MatchAnswersFromCache ==
    [][/\ (SaveRuleCall \/ StorageDeleteRuleCall) => rules_cache' = rules_cache
       /\ \A n \in ProcNames :
              (MatchProcess(n) /\ rules_cache.loaded) =>
                  /\ rules_cache' = rules_cache
                  /\ rret'.found <=>
                         /\ n # <<>>
                         /\ \E i \in 1..Len(rules_cache.rules) :
                                /\ rules_cache.rules[i].enabled
                                /\ matches(rules_cache.rules[i], n)
                  /\ rret'.found =>
                         \E i \in 1..Len(rules_cache.rules) :
                             rules_cache.rules[i] = rret'.rule]_vars

\* match_process has returned a rule that is no longer in storage
C30_Witness ==
    /\ rret.op = "match" /\ rret.found
    /\ rules_cache.loaded
    /\ \A i \in 1..Len(rules_file) : rules_file[i].id # rret.rule.id

====
